---------------------------- MODULE Spec2Model ----------------------------
(***************************************************************************)
(* A model of nutshell's NUT protocol client (package nut) and of the      *)
(* process wiring in main.                                                 *)
(*                                                                         *)
(* A protocol line or a command is a sequence of tokens: the words of the  *)
(* text separated by single spaces, without the trailing newline.          *)
(* "END LIST VAR ups1\n" is <<"END", "LIST", "VAR", "ups1">>.              *)
(*                                                                         *)
(* Spec           one Client shared by the pollers of its devices and by   *)
(*                run's Disconnect                                         *)
(* SpecPoller     the same with a single device                            *)
(* SpecCodec      one sendCommand call against an arbitrary reply stream   *)
(* SpecDiscovery  getListOfUPS and NewUPS against a scripted daemon        *)
(* SpecApp        create, then run's loop over the Clients                 *)
(* SpecCodecLive  SpecCodec with a caller that keeps running               *)
(* SpecSession    SpecPoller with the on-demand commands                   *)
(* SpecCollision  discovery when a device is listed twice                  *)
(* SpecLogout     one Disconnect call against every answer                 *)
(* SpecInfer      the type inference of GetVariables on raw value texts    *)
(* SpecIdent      NewUPS derives the identifier of two devices             *)
(* SpecGetters    GetStatus, GetBattery, GetLoad, GetRuntime on a snapshot *)
(* SpecSnapshot   one poller against every LIST VAR listing               *)
(* SpecReconnect  two pollers that call Reconnect in the same tick         *)
(***************************************************************************)
EXTENDS Integers, Sequences, FiniteSets, TLC

\* Bounds of the model.
MaxReply == 4
MaxTicks == 2
MaxFaults == 1
MaxConns == 1
MaxHosts == 3
MaxCmds == 1
MaxValueLen == 4
MaxPieces == 3

\* Callers of Client.sendCommand: one poller goroutine per device, and the
\* goroutine of main (New, then run's Disconnect).
Devices == {"ups1", "ups2"}
Main == "main"
Procs == Devices \cup {Main}
\* connections: the one New dials for each Client, and those Reconnect dials
ConnIds == 0..(IF MaxHosts - 1 > MaxConns THEN MaxHosts - 1 ELSE MaxConns)

VARIABLES
    conn,       \* Client.conn: the connection the handle refers to now
    nconns,     \* connections dialed by Reconnect so far
    sock,       \* per connection: open on the client side, lines received and
                \* not yet read, whether the server has seen LOGOUT
    auth,       \* per connection: how far USERNAME / PASSWORD have got on it
    io,         \* per caller: the frame of its sendCommand call
    pc,         \* per caller: its position in the poller loop / run
    gv,         \* per device: the frame of its GetVariables call
    variables,  \* per device: UPS.Variables
    tick,       \* per device: what its poller did in the current tick
    faults,     \* replies and dials the environment has failed so far
    cancelled,  \* ctx.Done() is closed
    script,     \* what the daemon is set to send: in SpecCodec the lines after
                \* the command, in SpecDiscovery the data of its devices
    boot,       \* the frame of getListOfUPS, with Client.list
    app         \* run's loop over the Clients the application holds

vars == <<conn, nconns, sock, auth, io, pc, gv, variables, tick, faults,
          cancelled, script, boot, app>>
netVars == <<conn, nconns, sock, auth>>
pollVars == <<pc, gv, variables, tick, cancelled, boot>>

----------------------------------------------------------------------------
(* Client.sendCommand and Client.readResponse *)

\* strings.HasPrefix(cmd, w + " ") for cmd = command text + "\n"
HasPrefixTok(cmd, w) == Len(cmd) >= 2 /\ cmd[1] = w

SingleLinePrefixes == {"USERNAME", "PASSWORD", "SET", "HELP", "VER", "NETVER"}

\* the endLine sendCommand computes (without its trailing newline)
endLine(cmd) ==
    IF \E w \in SingleLinePrefixes : HasPrefixTok(cmd, w)
    THEN <<"OK">>
    ELSE <<"END">> \o cmd

\* the multiLineResponse argument sendCommand passes
multiLineResponse(cmd) == HasPrefixTok(cmd, "LIST")

\* a mutated loop exit: only the terminator ends the read
readDoneAtEndLine(line, endL, multi) == line = endL

\* a mutated loop exit: the terminator is never recognised
readDoneNoEnd(line, endL, multi) == ~multi

\* readResponse's loop exit, after the line is appended
readDone(line, endL, multi) == line = endL \/ ~multi

\* strings.HasPrefix(resp[0], "ERR ")
IsErr(line) == Len(line) >= 2 /\ line[1] = "ERR"

\* strings.Split(resp[0], " ")[1]
ErrToken(line) == line[2]

ErrWrite == "failed to send command"
ErrRead == "error reading response"

\* A caller's sendCommand frame.  phase: idle (no call), write (about to write
\* the command), bind (written; readResponse not yet entered), read (inside
\* readResponse's loop), ret (returned: ok/err/out are the result).
IoIdle ==
    [phase |-> "idle", cmd |-> <<>>, wconn |-> 0, rconn |-> 0,
     resp |-> <<>>, ok |-> FALSE, err |-> "", out |-> <<>>]

IoCall(cmd) == [IoIdle EXCEPT !.phase = "write", !.cmd = cmd]

Texts(ls) == [i \in 1..Len(ls) |-> ls[i].text]

Tagged(p, reply) == [i \in 1..Len(reply) |-> [to |-> p, text |-> reply[i]]]

\* what sendCommand returns once readResponse has returned resp
sendResult(f, resp) ==
    IF IsErr(resp[1].text)
    THEN [f EXCEPT !.phase = "ret", !.resp = resp,
                   !.ok = FALSE, !.err = ErrToken(resp[1].text)]
    ELSE [f EXCEPT !.phase = "ret", !.resp = resp, !.ok = TRUE, !.out = resp]

\* readResponse's loop over the lines buf that its bufio.Reader holds: each
\* line is appended, and the loop ends at the terminator (or after one line);
\* with the buffer used up the loop waits for the connection again.
RECURSIVE readLines(_, _)
readLines(f, buf) ==
    IF buf = <<>> THEN f
    ELSE LET resp == Append(f.resp, Head(buf)) IN
         IF readDone(Head(buf).text, endLine(f.cmd), multiLineResponse(f.cmd))
         THEN sendResult(f, resp)
         ELSE readLines([f EXCEPT !.resp = resp], Tail(buf))

\* resp[1 : len(resp)-1]: the lines GetClients, GetCommands and GetVariables
\* iterate over (defined for len(resp) >= 2)
ListEntries(resp) == SubSeq(resp, 2, Len(resp) - 1)

IsAuthCmd(cmd) == HasPrefixTok(cmd, "USERNAME") \/ HasPrefixTok(cmd, "PASSWORD")

Crashed == \E p \in Procs : pc[p] = "panicked"

----------------------------------------------------------------------------
(* The NUT daemon, as the client sees it *)

ListUpsCmd == <<"LIST", "UPS">>
UpsDescCmd(d) == <<"GET", "UPSDESC", d>>
ListClientCmd(d) == <<"LIST", "CLIENT", d>>
ListCmdCmd(d) == <<"LIST", "CMD", d>>
CmdDescCmd(d, c) == <<"GET", "CMDDESC", d, c>>
ListVarCmd(d) == <<"LIST", "VAR", d>>
DescCmd(d, name) == <<"GET", "DESC", d>> \o (IF name = <<>> THEN <<"">> ELSE name)
TypeCmd(d, name) == <<"GET", "TYPE", d>> \o (IF name = <<>> THEN <<"">> ELSE name)
UserCmd == <<"USERNAME", "upsmon">>
PassCmd == <<"PASSWORD", "upsmon">>
VerCmd == <<"VER">>
NetverCmd == <<"NETVER">>
LogoutCmd == <<"LOGOUT">>

\* tokens that hold a double-quoted text, and the text between the quotes
Quoted == {"\"OL\"", "\"status\"", "\"APC\"", "\"1500\"", "\"-1.5\"", "\"enabled\""}
Unquote(tok) ==
    CASE tok = "\"OL\"" -> "OL"
      [] tok = "\"status\"" -> "status"
      [] tok = "\"APC\"" -> "APC"
      [] tok = "\"1500\"" -> "1500"
      [] tok = "\"-1.5\"" -> "-1.5"
      [] tok = "\"enabled\"" -> "enabled"

\* the characters of a value text
Chars(v) ==
    CASE v = "OL" -> <<"O", "L">>
      [] v = "status" -> <<"s", "t", "a", "t", "u", "s">>
      [] v = "APC" -> <<"A", "P", "C">>
      [] v = "1500" -> <<"1", "5", "0", "0">>
      [] v = "-1.5" -> <<"-", "1", ".", "5">>
      [] v = "enabled" -> <<"e", "n", "a", "b", "l", "e", "d">>
      [] v = "disabled" -> <<"d", "i", "s", "a", "b", "l", "e", "d">>

\* the daemon's well-formed answer to a command
GoodReply(cmd) ==
    IF cmd = ListUpsCmd THEN
        << <<"BEGIN">> \o cmd,
           <<"UPS", "ups1", "\"status\"">>,
           <<"UPS", "ups2", "\"status\"">>,
           <<"END">> \o cmd >>
    ELSE IF cmd[1] = "LIST" /\ cmd[2] = "VAR" THEN
        << <<"BEGIN">> \o cmd,
           <<"VAR", cmd[3], "ups.status", "\"OL\"">>,
           <<"END">> \o cmd >>
    ELSE IF cmd[1] = "LIST" /\ cmd[2] = "CLIENT" THEN
        << <<"BEGIN">> \o cmd, <<"CLIENT", cmd[3], "127.0.0.1">>, <<"END">> \o cmd >>
    ELSE IF cmd[1] = "LIST" /\ cmd[2] = "CMD" THEN
        << <<"BEGIN">> \o cmd, <<"CMD", cmd[3], "beeper.off">>, <<"END">> \o cmd >>
    ELSE IF cmd[1] = "GET" /\ cmd[2] \in {"DESC", "UPSDESC", "CMDDESC"} THEN
        << Tail(cmd) \o <<"\"status\"">> >>
    ELSE IF cmd[1] = "GET" /\ cmd[2] = "TYPE" THEN
        << Tail(cmd) \o <<"RW", "STRING:32">> >>
    ELSE IF cmd = VerCmd THEN << <<"upsd", "2.8.0">> >>
    ELSE IF cmd = NetverCmd THEN << <<"1.3">> >>
    ELSE IF cmd = LogoutCmd THEN << <<"OK", "Goodbye">> >>
    ELSE IF cmd[1] = "FSD" THEN << <<"OK", "FSD-SET">> >>
    ELSE << <<"OK">> >>

\* answers of a daemon that fails or misbehaves: silence, an error reply, a
\* LIST reply without its opening line, a LOGOUT reply that is no goodbye, a
\* TYPE reply cut after RW or with a length that is no number
BadReplies(cmd) ==
    { <<>>, << <<"ERR", "UNKNOWN-UPS">> >> }
    \cup (IF cmd[1] = "LIST" THEN { << <<"END">> \o cmd >> } ELSE {})
    \cup (IF cmd = LogoutCmd THEN { << <<"OK">> >> } ELSE {})
    \cup (IF cmd[1] = "GET" /\ cmd[2] = "TYPE"
          THEN { << Tail(cmd) \o <<"RW">> >>, << Tail(cmd) \o <<"RW", "STRING:x">> >> }
          ELSE {})

----------------------------------------------------------------------------
(* UPS.GetVariables, UPS.GetVariableDescription, UPS.GetVariableType *)

\* the device a caller works for: a poller for its own device, main (inside
\* getListOfUPS) for the device NewUPS is constructing
Dev(p) == IF p = Main THEN boot.dev ELSE p

\* strings.TrimPrefix(line, "VAR <name> ")
TrimVarPrefix(d, line) ==
    IF Len(line) >= 3 /\ line[1] = "VAR" /\ line[2] = d
    THEN SubSeq(line, 3, Len(line))
    ELSE line

HasQuote(line) == \E i \in 1..Len(line) : line[i] \in Quoted
FirstQuote(line) == CHOOSE i \in 1..Len(line) :
                        line[i] \in Quoted /\ \A j \in 1..(i - 1) : line[j] \notin Quoted

\* the loop's `continue`: entries with no quote are passed over
RECURSIVE SkipUnquoted(_, _)
SkipUnquoted(d, todo) ==
    IF todo = <<>> \/ HasQuote(TrimVarPrefix(d, todo[1])) THEN todo
    ELSE SkipUnquoted(d, Tail(todo))

EntryName(d, line) ==
    LET l == TrimVarPrefix(d, line) IN SubSeq(l, 1, FirstQuote(l) - 1)
EntryValue(d, line) ==
    LET l == TrimVarPrefix(d, line) IN Unquote(l[FirstQuote(l)])

\* strings.TrimPrefix(resp[0], "TYPE <name> <var> ") split at spaces
TypeFields(d, name, line) ==
    LET pre == <<"TYPE", d>> \o (IF name = <<>> THEN <<"">> ELSE name) IN
    IF Len(line) > Len(pre) /\ SubSeq(line, 1, Len(pre)) = pre
    THEN SubSeq(line, Len(pre) + 1, Len(line))
    ELSE line

IsStringType(tok) == tok \in {"STRING:32", "STRING:x"}
\* strconv.Atoi(splitType[1]) succeeds
AtoiOk(tok) == tok = "STRING:32"

\* GetVariableType's outcome on the first response line: "panic" (index out
\* of range), "err" (Atoi), or "ok"
TypeOutcome(d, name, line) ==
    LET fs == TypeFields(d, name, line) IN
    IF fs[1] = "RW" THEN
        IF Len(fs) < 2 THEN "panic"
        ELSE IF IsStringType(fs[2]) /\ ~AtoiOk(fs[2]) THEN "err"
        ELSE "ok"
    ELSE "ok"

TypeOf(d, name, line) ==
    LET fs == TypeFields(d, name, line) IN
    IF fs[1] = "RW" THEN (IF IsStringType(fs[2]) THEN "STRING" ELSE fs[2]) ELSE fs[1]

DigitSeq == <<"0", "1", "2", "3", "4", "5", "6", "7", "8", "9">>
Digits == {DigitSeq[i] : i \in 1..Len(DigitSeq)}
IsDigits(cs) == cs # <<>> /\ \A i \in 1..Len(cs) : cs[i] \in Digits

\* regexp.MatchString(`^-?\d+(\.\d+)?$`, valueStr)
MatchesNumber(cs) ==
    LET body == IF cs # <<>> /\ cs[1] = "-" THEN Tail(cs) ELSE cs IN
    \/ IsDigits(body)
    \/ \E k \in 2..(Len(body) - 1) :
          /\ body[k] = "."
          /\ IsDigits(SubSeq(body, 1, k - 1))
          /\ IsDigits(SubSeq(body, k + 1, Len(body)))

\* strings.Contains(valueStr, ".")
HasDot(cs) == \E i \in 1..Len(cs) : cs[i] = "."

DigitVal(c) == CHOOSE i \in 0..9 : DigitSeq[i + 1] = c

\* digits without their leading zeros
RECURSIVE StripZeros(_)
StripZeros(cs) ==
    IF Len(cs) > 1 /\ cs[1] = "0" THEN StripZeros(Tail(cs)) ELSE cs

\* a <= b for two numbers written with as many digits
RECURSIVE LexLeq(_, _)
LexLeq(a, b) ==
    IF a = <<>> THEN TRUE
    ELSE IF DigitVal(a[1]) < DigitVal(b[1]) THEN TRUE
    ELSE IF DigitVal(a[1]) > DigitVal(b[1]) THEN FALSE
    ELSE LexLeq(Tail(a), Tail(b))

\* 1<<63 - 1 and 1<<63 in digits
MaxInt64 ==
    <<"9", "2", "2", "3", "3", "7", "2", "0", "3", "6",
      "8", "5", "4", "7", "7", "5", "8", "0", "7">>
MinInt64Abs ==
    <<"9", "2", "2", "3", "3", "7", "2", "0", "3", "6",
      "8", "5", "4", "7", "7", "5", "8", "0", "8">>

\* strconv.ParseInt(valueStr, 10, 64) returns no error, for a text the
\* regular expression has matched: the number is in the int64 range
ParseIntOk(cs) ==
    LET neg == cs[1] = "-"
        mag == StripZeros(IF neg THEN Tail(cs) ELSE cs)
        lim == IF neg THEN MinInt64Abs ELSE MaxInt64
    IN  \/ Len(mag) < Len(lim)
        \/ Len(mag) = Len(lim) /\ LexLeq(mag, lim)

\* the switch on valueStr, on the characters of valueStr: the Go kind of
\* Variable.Value, Variable.Type and Variable.OriginalType; truth is the
\* value when the kind is bool.  (strconv.ParseFloat fails only on texts of
\* more than 300 digits, which the model does not have.)
InferChars(cs, varType) ==
    IF cs = Chars("enabled") THEN
        [kind |-> "bool", type |-> "BOOLEAN", original |-> varType, truth |-> TRUE]
    ELSE IF cs = Chars("disabled") THEN
        [kind |-> "bool", type |-> "BOOLEAN", original |-> varType, truth |-> FALSE]
    ELSE IF MatchesNumber(cs) THEN
        IF HasDot(cs) THEN
            [kind |-> "float64", type |-> "FLOAT_64", original |-> varType, truth |-> FALSE]
        ELSE IF ParseIntOk(cs) THEN
            [kind |-> "int64", type |-> "INTEGER", original |-> varType, truth |-> FALSE]
        ELSE [kind |-> "string", type |-> varType, original |-> varType, truth |-> FALSE]
    ELSE [kind |-> "string", type |-> "STRING", original |-> varType, truth |-> FALSE]

\* the switch on valueStr for a value text of the daemon
InferValue(valueStr, varType) == InferChars(Chars(valueStr), varType)

GvIdle == [todo |-> <<>>, vars |-> <<>>]
IdleTick == [n |-> 0, fetches |-> 0, reconnects |-> 0, first |-> "none", rc |-> "none"]

\* a mutated Reconnect: the registry is emptied for a new discovery
ListDropped(list) == {}

\* Client.list after Reconnect: Reconnect has no statement that touches it
ListAfterReconnect(list) == list

\* a mutated poller: the fetch is retried whatever Reconnect returned
RetryAlways(rcOk) == TRUE

\* `if err := u.Client.Reconnect(); err == nil`
ShouldRetry(rcOk) == rcOk

\* an unrecovered panic in a goroutine ends the process
Panic(p) ==
    /\ pc' = [pc EXCEPT ![p] = "panicked"]
    /\ io' = [io EXCEPT ![p] = IoIdle]
    /\ UNCHANGED <<gv, variables, tick, boot>>

----------------------------------------------------------------------------
(* Client.getListOfUPS and NewUPS *)

Server == "upsd:3493"

\* The frame of getListOfUPS: the device NewUPS is constructing, the devices
\* of the LIST UPS reply from that one on, the number of the UPS line the
\* device comes from, the commands GetCommands has still to describe, and
\* Client.list as a set of [id, name, nth]; pollers are the UPS lines whose
\* device has its poller goroutine started.
BootIdle ==
    [dev |-> "", devs |-> <<>>, nth |-> 0, ctodo |-> <<>>, list |-> {}, pollers |-> {}]

\* the bytes of the strings that are hashed
Bytes(str) ==
    CASE str = "" -> <<>>
      [] str = "upsd:3493" -> <<117, 112, 115, 100, 58, 51, 52, 57, 51>>
      [] str = "ups1" -> <<117, 112, 115, 49>>
      [] str = "ups2" -> <<117, 112, 115, 50>>

RECURSIVE WeightedSum(_, _)
WeightedSum(input, k) ==
    IF input = <<>> THEN 0
    ELSE Head(input) * k + WeightedSum(Tail(input), k + 2)

\* md5.New(), hasher.Write(input), hasher.Sum(nil): 16 bytes that the input
\* determines.  The mixing is a stand-in for MD5.
Md5Sum(input) ==
    [i \in 1..16 |-> (WeightedSum(input, 2 * i + 1) + 31 * i + Len(input)) % 256]

\* the alphabet of base64.URLEncoding
Base64Url ==
    << "A", "B", "C", "D", "E", "F", "G", "H", "I", "J", "K", "L", "M",
       "N", "O", "P", "Q", "R", "S", "T", "U", "V", "W", "X", "Y", "Z",
       "a", "b", "c", "d", "e", "f", "g", "h", "i", "j", "k", "l", "m",
       "n", "o", "p", "q", "r", "s", "t", "u", "v", "w", "x", "y", "z",
       "0", "1", "2", "3", "4", "5", "6", "7", "8", "9", "-", "_" >>

\* base64.URLEncoding.EncodeToString: 3 bytes give 4 characters, and a last
\* group of 1 or 2 bytes is padded with "="
RECURSIVE EncodeToString(_)
EncodeToString(b) ==
    IF b = <<>> THEN <<>>
    ELSE IF Len(b) = 1 THEN
        << Base64Url[b[1] \div 4 + 1], Base64Url[(b[1] % 4) * 16 + 1], "=", "=" >>
    ELSE IF Len(b) = 2 THEN
        << Base64Url[b[1] \div 4 + 1],
           Base64Url[(b[1] % 4) * 16 + b[2] \div 16 + 1],
           Base64Url[(b[2] % 16) * 4 + 1], "=" >>
    ELSE
        << Base64Url[b[1] \div 4 + 1],
           Base64Url[(b[1] % 4) * 16 + b[2] \div 16 + 1],
           Base64Url[(b[2] % 16) * 4 + b[3] \div 64 + 1],
           Base64Url[(b[3] % 64) + 1] >>
        \o EncodeToString(SubSeq(b, 4, Len(b)))

\* a mutated GenerateID that hashes the server alone
HashServerOnly(server, name, productID, vendorID) == server

\* the bytes GenerateID hashes: the server, then the name, the product id
\* and the vendor id, each appended when it is not empty
HashInput(server, name, productID, vendorID) ==
    server
    \o (IF name # <<>> THEN name ELSE <<>>)
    \o (IF productID # <<>> THEN productID ELSE <<>>)
    \o (IF vendorID # <<>> THEN vendorID ELSE <<>>)

\* UPS.GenerateID, on the bytes of its four strings
GenerateID(server, name, productID, vendorID) ==
    SubSeq(EncodeToString(Md5Sum(HashInput(server, name, productID, vendorID))), 1, 6)

\* u.ID of a device that reports no ups.productid and no ups.vendorid
DeviceID(name) == GenerateID(Bytes(Server), Bytes(name), <<>>, <<>>)

\* a mutated getListOfUPS: `c.list[ups.ID] = ups` without the test
RegisterLast(list, id, name, nth) ==
    {e \in list : e.id # id} \cup {[id |-> id, name |-> name, nth |-> nth]}

\* `if _, ok := c.list[ups.ID]; !ok { c.list[ups.ID] = ups }`
Register(list, id, name, nth) ==
    IF \E e \in list : e.id = id THEN list
    ELSE list \cup {[id |-> id, name |-> name, nth |-> nth]}

\* Client.list when the daemon lists the devices once each and every
\* NewUPS succeeds
Discovered ==
    { [id |-> DeviceID("ups1"), name |-> "ups1", nth |-> 1],
      [id |-> DeviceID("ups2"), name |-> "ups2", nth |-> 2] }

\* strings.HasPrefix(line, "UPS ")
IsUpsLine(line) == Len(line) >= 2 /\ line[1] = "UPS"

\* the names getListOfUPS takes from the response, in order
UpsNames(resp) ==
    LET sel == SelectSeq(resp, IsUpsLine)
    IN  [i \in 1..Len(sel) |-> IF sel[i][2] \in Quoted THEN "" ELSE sel[i][2]]

\* getListOfUPS goes on with the devices devs; started are the devices whose
\* poller goroutine NewUPS has just started.  With no device left New
\* returns the Client.
BootNext(devs, list, started) ==
    /\ pc' = [q \in Procs |->
                IF q = Main THEN (IF devs = <<>> THEN "run" ELSE "boot_desc")
                ELSE IF q \in started THEN "idle" ELSE pc[q]]
    /\ io' = [io EXCEPT ![Main] = IF devs = <<>> THEN IoIdle
                                  ELSE IoCall(UpsDescCmd(Head(devs)))]
    /\ boot' = [dev |-> IF devs = <<>> THEN "" ELSE Head(devs),
                devs |-> devs, nth |-> boot.nth + 1, ctodo |-> <<>>, list |-> list,
                pollers |-> boot.pollers \cup (IF started # {} THEN {boot.nth} ELSE {})]

\* NewUPS returns an error: logged, and the loop continues
BootFailed == BootNext(Tail(boot.devs), boot.list, {})

\* sendCommand("LIST UPS") has returned f
UpsListed(f) ==
    /\ IF ~f.ok
       THEN /\ pc' = [pc EXCEPT ![Main] = "new_failed"]
            /\ io' = [io EXCEPT ![Main] = IoIdle]
            /\ UNCHANGED boot
       ELSE BootNext(UpsNames(Texts(f.out)), boot.list, {})
    /\ UNCHANGED <<gv, variables, tick>>

\* GetDescription's sendCommand has returned f
BootDescribed(f) ==
    /\ IF ~f.ok THEN BootFailed
       ELSE /\ pc' = [pc EXCEPT ![Main] = "boot_clients"]
            /\ io' = [io EXCEPT ![Main] = IoCall(ListClientCmd(boot.dev))]
            /\ UNCHANGED boot
    /\ UNCHANGED <<gv, variables, tick>>

\* GetClients' sendCommand has returned f
BootClients(f) ==
    IF f.ok /\ Len(f.out) < 2 THEN Panic(Main)
    ELSE /\ IF ~f.ok THEN BootFailed
            ELSE /\ pc' = [pc EXCEPT ![Main] = "boot_cmds"]
                 /\ io' = [io EXCEPT ![Main] = IoCall(ListCmdCmd(boot.dev))]
                 /\ UNCHANGED boot
         /\ UNCHANGED <<gv, variables, tick>>

\* strings.TrimPrefix(line, "CMD <name> ")
CmdName(d, line) ==
    IF Len(line) >= 3 /\ line[1] = "CMD" /\ line[2] = d THEN line[3] ELSE line[1]

\* GetCommands' loop reaches its next command, or GetVariables begins
BootCmdNext(ctodo) ==
    IF ctodo = <<>> THEN
        /\ pc' = [pc EXCEPT ![Main] = "boot_vars"]
        /\ io' = [io EXCEPT ![Main] = IoCall(ListVarCmd(boot.dev))]
        /\ boot' = [boot EXCEPT !.ctodo = <<>>]
    ELSE
        /\ pc' = [pc EXCEPT ![Main] = "boot_cmddesc"]
        /\ io' = [io EXCEPT ![Main] = IoCall(CmdDescCmd(boot.dev, CmdName(boot.dev, Head(ctodo))))]
        /\ boot' = [boot EXCEPT !.ctodo = ctodo]

\* GetCommands' sendCommand("LIST CMD <name>") has returned f
BootCommands(f) ==
    IF f.ok /\ Len(f.out) < 2 THEN Panic(Main)
    ELSE /\ IF ~f.ok THEN BootFailed
            ELSE BootCmdNext(ListEntries(Texts(f.out)))
         /\ UNCHANGED <<gv, variables, tick>>

\* GetCommandDescription's sendCommand has returned f
BootCmdDescribed(f) ==
    /\ IF ~f.ok THEN BootFailed ELSE BootCmdNext(Tail(boot.ctodo))
    /\ UNCHANGED <<gv, variables, tick>>

\* variable.Value.(string) for ups.mfr and ups.model
AssertsString(v) == v.name \in {<<"ups.mfr">>, <<"ups.model">>}

\* NewUPS after GetVariables has returned vs: the loop over u.Variables,
\* GenerateID, the poller goroutine; then getListOfUPS registers the device
NewUPSFetched(vs) ==
    IF \E i \in 1..Len(vs) : AssertsString(vs[i]) /\ vs[i].kind # "string"
    THEN /\ pc' = [pc EXCEPT ![Main] = "panicked"]
         /\ io' = [io EXCEPT ![Main] = IoIdle]
         /\ UNCHANGED boot
    ELSE BootNext(Tail(boot.devs),
                  Register(boot.list, DeviceID(boot.dev), boot.dev, boot.nth),
                  {boot.dev})

----------------------------------------------------------------------------
(* UPS.GetVariables, step by step; the poller's use of its result *)

\* GetVariables has returned: ok with the variables vs, or an error
FetchReturns(p, ok, vs) ==
    IF p = Main THEN
        /\ IF ok THEN NewUPSFetched(vs) ELSE BootFailed
        /\ UNCHANGED tick
    ELSE IF pc[p] = "fetch1" /\ ~ok THEN
        \* the first fetch failed: u.Client.Reconnect()
        /\ pc' = [pc EXCEPT ![p] = "rc_close"]
        /\ tick' = [tick EXCEPT ![p].first = "err", ![p].reconnects = @ + 1]
        /\ io' = [io EXCEPT ![p] = IoIdle]
        /\ UNCHANGED boot
    ELSE
        /\ pc' = [pc EXCEPT ![p] = "idle"]
        /\ tick' = IF pc[p] = "fetch1" THEN [tick EXCEPT ![p].first = "ok"] ELSE tick
        /\ io' = [io EXCEPT ![p] = IoIdle]
        /\ UNCHANGED boot

\* the loop over resp[1 : len(resp)-1] reaches its next entry or its end
GvContinue(p, todo, vs) ==
    LET rest == SkipUnquoted(Dev(p), todo) IN
    IF rest = <<>> THEN
        /\ variables' = [variables EXCEPT ![Dev(p)] = vs]
        /\ gv' = [gv EXCEPT ![Dev(p)] = GvIdle]
        /\ FetchReturns(p, TRUE, vs)
    ELSE
        /\ gv' = [gv EXCEPT ![Dev(p)] = [todo |-> rest, vars |-> vs]]
        /\ io' = [io EXCEPT ![p] = IoCall(DescCmd(Dev(p), EntryName(Dev(p), rest[1])))]
        /\ UNCHANGED <<variables, pc, tick, boot>>

\* a mutated GetVariables: u.Variables is assigned on the error returns too
GvFailPartial(p) ==
    /\ gv' = [gv EXCEPT ![Dev(p)] = GvIdle]
    /\ FetchReturns(p, FALSE, <<>>)
    /\ variables' = [variables EXCEPT ![Dev(p)] = gv[Dev(p)].vars]

\* an error return of GetVariables: u.Variables is not assigned
GvFail(p) ==
    /\ gv' = [gv EXCEPT ![Dev(p)] = GvIdle]
    /\ FetchReturns(p, FALSE, <<>>)
    /\ UNCHANGED variables

InFetch(p) == pc[p] \in {"fetch1", "fetch2", "boot_vars"}

\* sendCommand("LIST VAR <name>") has returned f
GvListed(p, f) ==
    IF ~f.ok THEN GvFail(p)
    ELSE IF Len(f.out) < 2 THEN Panic(p)
    ELSE GvContinue(p, ListEntries(Texts(f.out)), <<>>)

\* GetVariableDescription's sendCommand has returned f
GvDescribed(p, f) ==
    IF ~f.ok THEN GvFail(p)
    ELSE /\ io' = [io EXCEPT ![p] =
                     IoCall(TypeCmd(Dev(p), EntryName(Dev(p), gv[Dev(p)].todo[1])))]
         /\ UNCHANGED <<gv, variables, pc, tick, boot>>

\* GetVariableType's sendCommand has returned f
GvTyped(p, f) ==
    LET d == Dev(p)
        e == gv[d].todo[1]
        name == EntryName(d, e)
    IN  IF ~f.ok THEN GvFail(p)
        ELSE LET line == f.out[1].text
                 o == TypeOutcome(d, name, line)
             IN  IF o = "panic" THEN Panic(p)
                 ELSE IF o = "err" THEN GvFail(p)
                 ELSE LET inf == InferValue(EntryValue(d, e), TypeOf(d, name, line))
                      IN  GvContinue(p, Tail(gv[d].todo),
                              Append(gv[d].vars,
                                  [name |-> name, value |-> EntryValue(d, e),
                                   kind |-> inf.kind, type |-> inf.type]))

----------------------------------------------------------------------------
(* Client.Reconnect, called by a poller; Client.Disconnect, called by run *)

\* Reconnect has returned to the poller loop
ReconnectReturns(p, rcOk) ==
    IF ShouldRetry(rcOk) THEN
        /\ pc' = [pc EXCEPT ![p] = "fetch2"]
        /\ tick' = [tick EXCEPT ![p].rc = IF rcOk THEN "ok" ELSE "err",
                                ![p].fetches = @ + 1]
        /\ io' = [io EXCEPT ![p] = IoCall(ListVarCmd(p))]
    ELSE
        /\ pc' = [pc EXCEPT ![p] = "idle"]
        /\ tick' = [tick EXCEPT ![p].rc = "err"]
        /\ io' = [io EXCEPT ![p] = IoIdle]

\* one of authenticate's, getVersion's or getNetworkProtocolVersion's
\* sendCommand calls has returned f
RcStep(p, f) ==
    /\ LET failed == \/ ~f.ok
                     \/ IsAuthCmd(f.cmd) /\ f.out[1].text # <<"OK">>
       IN  IF failed THEN ReconnectReturns(p, FALSE)
           ELSE IF f.cmd = UserCmd THEN
               io' = [io EXCEPT ![p] = IoCall(PassCmd)] /\ UNCHANGED <<pc, tick>>
           ELSE IF f.cmd = PassCmd THEN
               io' = [io EXCEPT ![p] = IoCall(VerCmd)] /\ UNCHANGED <<pc, tick>>
           ELSE IF f.cmd = VerCmd THEN
               io' = [io EXCEPT ![p] = IoCall(NetverCmd)] /\ UNCHANGED <<pc, tick>>
           ELSE ReconnectReturns(p, TRUE)
    /\ UNCHANGED <<gv, variables, boot>>

\* a mutated Disconnect: every response is a goodbye
LogoutAny(f) == f.ok

\* Disconnect's verdict on the LOGOUT response
LogoutOk(f) ==
    /\ f.ok
    /\ Len(f.out) > 0
    /\ f.out[1].text = <<"OK", "Goodbye">> \/ f.out[1].text = <<"Goodbye...">>

\* Disconnect has returned f to run's loop over a.api.Clients: an error makes
\* run return; otherwise the loop goes on, and run returns nil after the
\* last client
RunDisconnected(p, f) ==
    /\ pc' = [pc EXCEPT ![p] = IF ~LogoutOk(f) THEN "run_failed"
                               ELSE IF app.i < Len(app.clients) THEN "disconnect_next"
                               ELSE "terminated"]
    /\ io' = [io EXCEPT ![p] = IoIdle]
    /\ UNCHANGED <<gv, variables, tick, boot>>

\* ForceShutdown's, SetVariable's or SendCommand's sendCommand has returned
OnDemandReturns(p, f) ==
    /\ pc' = [pc EXCEPT ![p] = "run"]
    /\ io' = [io EXCEPT ![p] = IoIdle]
    /\ UNCHANGED <<gv, variables, tick, boot>>

\* sendCommand returns f to its caller, which goes on to its next call
Return(p, f) ==
    IF InFetch(p) THEN
        IF f.cmd[2] = "VAR" THEN GvListed(p, f)
        ELSE IF f.cmd[2] = "DESC" THEN GvDescribed(p, f)
        ELSE GvTyped(p, f)
    ELSE IF pc[p] = "rc_auth" THEN RcStep(p, f)
    ELSE IF pc[p] = "disconnect" THEN RunDisconnected(p, f)
    ELSE IF pc[p] = "ondemand" THEN OnDemandReturns(p, f)
    ELSE IF pc[p] = "list_ups" THEN UpsListed(f)
    ELSE IF pc[p] = "boot_desc" THEN BootDescribed(f)
    ELSE IF pc[p] = "boot_clients" THEN BootClients(f)
    ELSE IF pc[p] = "boot_cmds" THEN BootCommands(f)
    ELSE IF pc[p] = "boot_cmddesc" THEN BootCmdDescribed(f)
    ELSE /\ io' = [io EXCEPT ![p] = f]
         /\ UNCHANGED <<pc, gv, variables, tick, boot>>

----------------------------------------------------------------------------
(* The steps of Client.sendCommand / Client.readResponse *)

\* The login state of a connection after cmd is written on it and answered
\* with reply: new, user (USERNAME answered OK), authed (PASSWORD answered OK
\* after that), unanswered (USERNAME or PASSWORD written and not answered
\* OK), early (a command was written before both were answered OK).
AuthAfter(a, cmd, reply) ==
    IF a = "authed" \/ a = "early" THEN a
    ELSE IF a = "new" /\ cmd = UserCmd THEN
        (IF reply = << <<"OK">> >> THEN "user" ELSE "unanswered")
    ELSE IF a = "user" /\ cmd = PassCmd THEN
        (IF reply = << <<"OK">> >> THEN "authed" ELSE "unanswered")
    ELSE "early"

\* the commands of New and of Reconnect on a new connection
LoginCmds == {UserCmd, PassCmd, VerCmd, NetverCmd}

\* the daemon has answered the login command cmd well
Answered(cmd, reply) ==
    /\ cmd \in LoginCmds
    /\ reply # <<>>
    /\ ~IsErr(reply[1])
    /\ IsAuthCmd(cmd) => reply[1] = <<"OK">>

\* a connection: open on the client side, the lines received and not yet
\* read, LOGOUT received by the daemon, and the login commands the daemon
\* has answered well on it.  made tells whether New has dialed it and
\* completed its login.
SockAfterNew(made) ==
    [open |-> made, inbound |-> <<>>, loggedOut |-> FALSE,
     login |-> IF made THEN LoginCmds ELSE {}]

\* fmt.Fprint(c.conn, cmd): the command goes out on the connection c.conn
\* refers to at this moment; the server answers with reply.
WriteWith(p, reply) ==
    /\ ~Crashed
    /\ io[p].phase = "write"
    /\ LET c == conn IN
       IF ~sock[c].open
       THEN /\ Return(p, [io[p] EXCEPT !.phase = "ret", !.wconn = c,
                                       !.ok = FALSE, !.err = ErrWrite])
            /\ UNCHANGED <<sock, auth>>
       ELSE /\ io' = [io EXCEPT ![p] = [@ EXCEPT !.phase = "bind", !.wconn = c]]
            /\ sock' = [sock EXCEPT
                   ![c].inbound = IF sock[c].loggedOut THEN @
                                  ELSE @ \o Tagged(p, reply),
                   ![c].loggedOut = @ \/ io[p].cmd = LogoutCmd,
                   ![c].login = IF Answered(io[p].cmd, reply)
                                THEN @ \cup {io[p].cmd} ELSE @]
            /\ auth' = [auth EXCEPT ![c] = AuthAfter(@, io[p].cmd, reply)]
            /\ UNCHANGED <<pc, gv, variables, tick, boot>>
    /\ UNCHANGED <<conn, nconns, cancelled, app>>

\* sendCommand's write, with the daemon's answer
Write(p) ==
    /\ io[p].phase = "write"
    /\ \/ /\ WriteWith(p, GoodReply(io[p].cmd))
          /\ UNCHANGED faults
       \/ /\ faults < MaxFaults
          /\ \E r \in BadReplies(io[p].cmd) : WriteWith(p, r)
          /\ faults' = faults + 1
    /\ UNCHANGED script

\* readResponse's entry: the read deadline and a new bufio.Reader on the
\* connection c.conn refers to at this moment.
Bind(p) ==
    /\ ~Crashed
    /\ io[p].phase = "bind"
    /\ io' = [io EXCEPT ![p] = [@ EXCEPT !.phase = "read", !.rconn = conn,
                                         !.resp = <<>>]]
    /\ UNCHANGED <<netVars, pollVars, faults, script, app>>

\* what readResponse makes of the lines its connection holds now
ReadOutcome(p) == readLines(io[p], sock[io[p].rconn].inbound)

\* buff.ReadString('\n') returns lines: the reader takes everything the
\* connection has received so far and the loop runs over it; what is left in
\* the reader when readResponse returns is dropped with the reader.
ReadLine(p) ==
    /\ ~Crashed
    /\ io[p].phase = "read"
    /\ sock[io[p].rconn].open
    /\ sock[io[p].rconn].inbound # <<>>
    /\ sock' = [sock EXCEPT ![io[p].rconn].inbound = <<>>]
    /\ IF ReadOutcome(p).phase = "ret"
       THEN Return(p, ReadOutcome(p))
       ELSE /\ io' = [io EXCEPT ![p] = ReadOutcome(p)]
            /\ UNCHANGED <<pc, gv, variables, tick, boot>>
    /\ UNCHANGED <<conn, nconns, auth, cancelled, faults, script, app>>

\* a mutated readResponse: no read deadline is set
NoReadDeadline(c) == FALSE

\* c.conn.SetReadDeadline(time.Now().Add(time.Second * 5)): a read that
\* finds nothing on connection c ends with a timeout
ReadTimesOut(c) == sock[c].inbound = <<>>

\* buff.ReadString('\n') returns an error: the connection is closed, or
\* nothing arrives before the read deadline.
ReadFail(p) ==
    /\ ~Crashed
    /\ io[p].phase = "read"
    /\ ~sock[io[p].rconn].open \/ ReadTimesOut(io[p].rconn)
    /\ Return(p, [io[p] EXCEPT !.phase = "ret", !.ok = FALSE, !.err = ErrRead])
    /\ UNCHANGED <<netVars, cancelled, faults, script, app>>

----------------------------------------------------------------------------
(* The poller goroutine of NewUPS *)

RECURSIVE SumTicks(_)
SumTicks(ds) ==
    IF ds = {} THEN 0
    ELSE LET d == CHOOSE x \in ds : TRUE IN tick[d].n + SumTicks(ds \ {d})

\* ticks the pollers have taken so far
TicksTaken == SumTicks(Devices)

\* case <-tk.C: the first GetVariables of the tick begins
Tick(p) ==
    /\ ~Crashed
    /\ pc[p] = "idle"
    /\ TicksTaken < MaxTicks
    /\ pc' = [pc EXCEPT ![p] = "fetch1"]
    /\ tick' = [tick EXCEPT ![p] = [IdleTick EXCEPT !.n = tick[p].n + 1, !.fetches = 1]]
    /\ io' = [io EXCEPT ![p] = IoCall(ListVarCmd(p))]
    /\ UNCHANGED <<netVars, gv, variables, faults, cancelled, script, boot, app>>

\* case <-ctx.Done(): tk.Stop(); return
Stop(p) ==
    /\ ~Crashed
    /\ pc[p] = "idle"
    /\ cancelled
    /\ pc' = [pc EXCEPT ![p] = "stopped"]
    /\ UNCHANGED <<netVars, io, gv, variables, tick, faults, cancelled, script,
                   boot, app>>

\* Reconnect: c.conn.Close(); what the closed connection had received and
\* not delivered is gone with it
RcClose(p) ==
    /\ ~Crashed
    /\ pc[p] = "rc_close"
    /\ sock' = [sock EXCEPT ![conn].open = FALSE, ![conn].inbound = <<>>]
    /\ pc' = [pc EXCEPT ![p] = "rc_dial"]
    /\ UNCHANGED <<conn, nconns, auth, io, gv, variables, tick, faults,
                   cancelled, script, boot, app>>

\* Reconnect: net.DialTCP succeeds; c.conn = conn; authenticate begins.
\* At most max connections are dialed.
RcDialedWithin(p, max) ==
    /\ ~Crashed
    /\ pc[p] = "rc_dial"
    /\ nconns < max
    /\ nconns' = nconns + 1
    /\ conn' = nconns + 1
    /\ sock' = [sock EXCEPT ![nconns + 1].open = TRUE]
    /\ pc' = [pc EXCEPT ![p] = "rc_auth"]
    /\ io' = [io EXCEPT ![p] = IoCall(UserCmd)]
    /\ boot' = [boot EXCEPT !.list = ListAfterReconnect(boot.list)]
    /\ UNCHANGED <<auth, gv, variables, tick, faults, cancelled, script, app>>

RcDialed(p) == RcDialedWithin(p, MaxConns)

\* Reconnect: net.ResolveTCPAddr or net.DialTCP fails
RcDialFailsWithin(p, max) ==
    /\ ~Crashed
    /\ pc[p] = "rc_dial"
    /\ faults < MaxFaults \/ nconns = max
    /\ faults' = IF nconns = max THEN faults ELSE faults + 1
    /\ ReconnectReturns(p, FALSE)
    /\ UNCHANGED <<netVars, gv, variables, cancelled, script, boot, app>>

RcDialFails(p) == RcDialFailsWithin(p, MaxConns)

----------------------------------------------------------------------------
(* main: the signal handler and app.run's shutdown *)

\* the signal goroutine calls cancel()
Cancel ==
    /\ ~Crashed
    /\ pc[Main] = "run"
    /\ ~cancelled
    /\ cancelled' = TRUE
    /\ UNCHANGED <<netVars, io, pc, gv, variables, tick, faults, script, boot, app>>

\* The Clients the application holds, each by the connection New dialed for
\* it; i is the position of run's loop in them, attempted the positions on
\* which Disconnect has been called.
AppOf(clients) == [clients |-> clients, i |-> 0, attempted |-> {}, cmds |-> 0]

\* <-ctx.Done() in run returns; the loop over a.api.Clients begins:
\* client.Disconnect() sends LOGOUT
RunShutdown ==
    /\ ~Crashed
    /\ pc[Main] = "run"
    /\ cancelled
    /\ IF app.clients = <<>>
       THEN /\ pc' = [pc EXCEPT ![Main] = "terminated"]
            /\ UNCHANGED <<io, app>>
       ELSE /\ pc' = [pc EXCEPT ![Main] = "disconnect"]
            /\ io' = [io EXCEPT ![Main] = IoCall(LogoutCmd)]
            /\ app' = [app EXCEPT !.i = 1, !.attempted = {1}]
    /\ UNCHANGED <<netVars, gv, variables, tick, faults, cancelled, script, boot>>

\* the loop takes its next client: client.Disconnect() sends LOGOUT on that
\* Client's connection
RunNext ==
    /\ ~Crashed
    /\ pc[Main] = "disconnect_next"
    /\ pc' = [pc EXCEPT ![Main] = "disconnect"]
    /\ app' = [app EXCEPT !.i = @ + 1, !.attempted = @ \cup {app.i + 1}]
    /\ conn' = app.clients[app.i + 1]
    /\ io' = [io EXCEPT ![Main] = IoCall(LogoutCmd)]
    /\ UNCHANGED <<nconns, sock, auth, gv, variables, tick, faults, cancelled,
                   script, boot>>

----------------------------------------------------------------------------
(* Spec: one Client, the pollers of its devices, the shutdown *)

Init ==
    /\ conn = 0
    /\ nconns = 0
    /\ sock = [c \in ConnIds |-> SockAfterNew(c = 0)]
    /\ auth = [c \in ConnIds |-> IF c = 0 THEN "authed" ELSE "new"]
    /\ io = [p \in Procs |-> IoIdle]
    /\ pc = [p \in Procs |-> IF p = Main THEN "run" ELSE "idle"]
    /\ gv = [d \in Devices |-> GvIdle]
    /\ variables = [d \in Devices |->
                      << [name |-> <<"ups.status">>, value |-> "OL",
                          kind |-> "string", type |-> "STRING"] >>]
    /\ tick = [d \in Devices |-> IdleTick]
    /\ faults = 0
    /\ cancelled = FALSE
    /\ script = <<>>
    /\ boot = [BootIdle EXCEPT
                 !.list = Discovered, !.pollers = {1, 2}]
    /\ app = AppOf(<<0>>)

Next ==
    \/ \E p \in Devices : Tick(p)
    \/ \E p \in Devices : Stop(p)
    \/ \E p \in Devices : RcClose(p)
    \/ \E p \in Devices : RcDialed(p)
    \/ \E p \in Devices : RcDialFails(p)
    \/ \E p \in Procs : Write(p)
    \/ \E p \in Procs : Bind(p)
    \/ \E p \in Procs : ReadLine(p)
    \/ \E p \in Procs : ReadFail(p)
    \/ Cancel
    \/ RunShutdown

Spec == Init /\ [][Next]_vars

----------------------------------------------------------------------------
(* SpecPoller: a Client that serves one device *)

NextPoller ==
    \/ Tick("ups1")
    \/ Stop("ups1")
    \/ RcClose("ups1")
    \/ RcDialed("ups1")
    \/ RcDialFails("ups1")
    \/ \E p \in {"ups1", Main} : Write(p)
    \/ \E p \in {"ups1", Main} : Bind(p)
    \/ \E p \in {"ups1", Main} : ReadLine(p)
    \/ \E p \in {"ups1", Main} : ReadFail(p)
    \/ Cancel
    \/ RunShutdown

SpecPoller == Init /\ [][NextPoller]_vars

----------------------------------------------------------------------------
(* SpecSnapshot: the poller of one device whose variables have changed *)

\* the variables the daemon lists for the device now, in the order of its
\* LIST VAR reply
VarListings ==
    { <<>>,
      << <<"ups.status", "\"OL\"">> >>,
      << <<"ups.status", "\"1500\"">> >>,
      << <<"ups.mfr", "\"APC\"">>, <<"ups.status", "\"OL\"">> >>,
      << <<"ups.status", "\"OL\"">>, <<"ups.mfr", "\"APC\"">> >> }

\* the element of u.Variables for a listed variable of declared type STRING
VariableOf(entry) ==
    [name |-> <<entry[1]>>, value |-> Unquote(entry[2]),
     kind |-> InferValue(Unquote(entry[2]), "STRING").kind,
     type |-> InferValue(Unquote(entry[2]), "STRING").type]

\* u.Variables after a fetch of the listing that succeeds
SnapshotOf(listing) == [i \in 1..Len(listing) |-> VariableOf(listing[i])]

\* the snapshot of the last fetch before the listing changed
PreviousSnapshot ==
    SnapshotOf(<< <<"ups.mfr", "\"APC\"">>, <<"ups.load", "\"1500\"">> >>)

SnapReply(cmd) ==
    IF cmd[1] = "LIST" /\ cmd[2] = "VAR" THEN
        << <<"BEGIN">> \o cmd >>
        \o [i \in 1..Len(script) |-> <<"VAR", cmd[3], script[i][1], script[i][2]>>]
        \o << <<"END">> \o cmd >>
    ELSE GoodReply(cmd)

\* the connection is open, or an earlier Reconnect closed it and could not
\* dial
InitSnapshot ==
    /\ conn = 0
    /\ nconns = 0
    /\ \E o \in BOOLEAN :
          sock = [c \in ConnIds |->
                    [SockAfterNew(c = 0) EXCEPT !.open = c = 0 /\ o]]
    /\ auth = [c \in ConnIds |-> IF c = 0 THEN "authed" ELSE "new"]
    /\ io = [p \in Procs |-> IoIdle]
    /\ pc = [p \in Procs |-> IF p = Main THEN "run" ELSE "idle"]
    /\ gv = [d \in Devices |-> GvIdle]
    /\ variables = [d \in Devices |-> PreviousSnapshot]
    /\ tick = [d \in Devices |-> IdleTick]
    /\ faults = 0
    /\ cancelled = FALSE
    /\ script \in VarListings
    /\ boot = [BootIdle EXCEPT !.list = Discovered, !.pollers = {1, 2}]
    /\ app = AppOf(<<0>>)

\* sendCommand's write, with the daemon's answer
SnapWrite(p) ==
    /\ io[p].phase = "write"
    /\ \/ /\ WriteWith(p, SnapReply(io[p].cmd))
          /\ UNCHANGED faults
       \/ /\ faults < MaxFaults
          /\ \E r \in BadReplies(io[p].cmd) : WriteWith(p, r)
          /\ faults' = faults + 1
    /\ UNCHANGED script

NextSnapshot ==
    \/ Tick("ups1")
    \/ RcClose("ups1")
    \/ RcDialed("ups1")
    \/ RcDialFails("ups1")
    \/ SnapWrite("ups1")
    \/ Bind("ups1")
    \/ ReadLine("ups1")
    \/ ReadFail("ups1")

SpecSnapshot == InitSnapshot /\ [][NextSnapshot]_vars

\* C23: a step changes the snapshot of the device only by ending a fetch,
\* and then the snapshot is the whole listing of the daemon, in its order; a
\* first fetch that succeeds leaves exactly that, and a first fetch that
\* fails leaves the snapshot as it was.
C23_SnapshotIsLastFetch ==
    [][ /\ variables'["ups1"] # variables["ups1"] =>
              /\ pc["ups1"] \in {"fetch1", "fetch2"}
              /\ pc'["ups1"] = "idle"
              /\ variables'["ups1"] = SnapshotOf(script)
        /\ (pc["ups1"] = "fetch1" /\ tick'["ups1"].first = "ok") =>
              variables'["ups1"] = SnapshotOf(script)
        /\ (pc["ups1"] = "fetch1" /\ tick'["ups1"].first = "err") =>
              variables'["ups1"] = variables["ups1"]
      ]_vars

\* the first tick replaced the two old variables by the one the daemon has
\* now, and the second tick's fetch failed and left that snapshot
C23_Witness ==
    /\ tick["ups1"].n = 2
    /\ tick["ups1"].first = "err"
    /\ Len(script) = 1
    /\ variables["ups1"] = SnapshotOf(script)
    /\ variables["ups1"] # PreviousSnapshot

----------------------------------------------------------------------------
(* SpecReconnect: the pollers of two devices fail in the same tick *)

\* both pollers have had their first fetch fail and call Reconnect
InitReconnect ==
    /\ conn = 0
    /\ nconns = 0
    /\ sock = [c \in ConnIds |-> SockAfterNew(c = 0)]
    /\ auth = [c \in ConnIds |-> IF c = 0 THEN "authed" ELSE "new"]
    /\ io = [p \in Procs |-> IoIdle]
    /\ pc = [p \in Procs |-> IF p = Main THEN "run" ELSE "rc_close"]
    /\ gv = [d \in Devices |-> GvIdle]
    /\ variables = [d \in Devices |-> SnapshotOf(<< <<"ups.status", "\"OL\"">> >>)]
    /\ tick = [d \in Devices |->
                 [IdleTick EXCEPT !.n = 1, !.fetches = 1, !.reconnects = 1,
                                  !.first = "err"]]
    /\ faults = 0
    /\ cancelled = FALSE
    /\ script = <<>>
    /\ boot = [BootIdle EXCEPT !.list = Discovered, !.pollers = {1, 2}]
    /\ app = AppOf(<<0>>)

\* each of the two Reconnect calls can dial
NextReconnect ==
    \/ \E p \in Devices : RcClose(p)
    \/ \E p \in Devices : RcDialedWithin(p, MaxConns + 1)
    \/ \E p \in Devices : RcDialFailsWithin(p, MaxConns + 1)
    \/ \E p \in Devices : Write(p)
    \/ \E p \in Devices : Bind(p)
    \/ \E p \in Devices : ReadLine(p)
    \/ \E p \in Devices : ReadFail(p)

SpecReconnect == InitReconnect /\ [][NextReconnect]_vars

\* Reconnect returns nil to the poller p in this step
ReconnectSucceeds(p) == pc[p] = "rc_auth" /\ tick[p].rc # "ok" /\ tick'[p].rc = "ok"

\* C25: when Reconnect returns nil, c.conn refers to an open connection on
\* which USERNAME, PASSWORD, VER and NETVER were answered, and no other
\* connection is open.
C25_ReconnectLeavesOneGoodConn ==
    [][\A p \in Devices :
          ReconnectSucceeds(p) =>
              /\ sock'[conn'].open
              /\ sock'[conn'].login = LoginCmds
              /\ \A c \in ConnIds : sock'[c].open => c = conn'
      ]_vars

----------------------------------------------------------------------------
(* SpecSession: SpecPoller with on-demand commands on the device *)

OnDemandCmds ==
    { <<"FSD", "ups1">>,
      <<"SET", "VAR", "ups1", "ups.delay.shutdown", "\"1500\"">>,
      <<"INSTCMD", "ups1", "beeper.off">> }

\* UPS.ForceShutdown, UPS.SetVariable or UPS.SendCommand is called while the
\* application runs
OnDemand ==
    /\ ~Crashed
    /\ pc[Main] = "run"
    /\ app.cmds < MaxCmds
    /\ \E cmd \in OnDemandCmds : io' = [io EXCEPT ![Main] = IoCall(cmd)]
    /\ pc' = [pc EXCEPT ![Main] = "ondemand"]
    /\ app' = [app EXCEPT !.cmds = @ + 1]
    /\ UNCHANGED <<netVars, gv, variables, tick, faults, cancelled, script, boot>>

NextSession ==
    \/ NextPoller
    \/ OnDemand

SpecSession == Init /\ [][NextSession]_vars

----------------------------------------------------------------------------
(* Properties of the Client and its pollers *)

\* the command of p is written and its response is not yet read to the end
InFlight(p) == io[p].phase \in {"bind", "read"}

\* C1: on one connection at most one command is in flight at any time, and
\* the lines a caller has read are replies to its own command.
C1_OneCommandInFlight ==
    /\ \A p, q \in Procs :
          (p # q /\ InFlight(p) /\ InFlight(q)) => io[p].wconn # io[q].wconn
    /\ \A p \in Procs :
          io[p].phase = "read" =>
              \A i \in 1..Len(io[p].resp) : io[p].resp[i].to = p

\* the step is the read of caller p that ends its sendCommand with success
ReturnsOk(p) ==
    /\ io[p].phase = "read"
    /\ io'[p] # io[p]
    /\ sock[io[p].rconn].open /\ sock[io[p].rconn].inbound # <<>>
    /\ ReadOutcome(p).phase = "ret" /\ ReadOutcome(p).ok

\* C2: no sendCommand returns success after writing its command on one
\* connection and reading its response from another one.
C2_NoCommandAcrossReconnect ==
    [][\A p \in Procs : ReturnsOk(p) => io[p].wconn = io[p].rconn]_vars

\* C3: in every tick the poller makes at most two fetches and at most one
\* Reconnect; Reconnect is attempted exactly when the first fetch returned an
\* error, the second fetch is made exactly when that Reconnect succeeded, and
\* the poller is Idle again after a first fetch that succeeded, after a
\* Reconnect that failed, and after the second fetch whatever it returned.
\* (A fetch that panics returns nothing: the process ends, see C4.)
C3_PollerTick ==
    \A d \in Devices :
        LET t == tick[d] IN
        /\ t.fetches <= 2 /\ t.reconnects <= 1
        /\ t.reconnects = 1 <=> t.first = "err"
        /\ t.fetches = 2 <=> t.rc = "ok"
        /\ t.rc # "none" => t.first = "err"
        /\ pc[d] = "fetch1" => t.fetches = 1 /\ t.first = "none"
        /\ pc[d] \in {"rc_close", "rc_dial", "rc_auth"} =>
               t.fetches = 1 /\ t.first = "err" /\ t.rc = "none"
        /\ pc[d] = "fetch2" => t.fetches = 2 /\ t.rc = "ok"
        /\ pc[d] \in {"idle", "stopped"} =>
               \/ t.fetches = 0 /\ t.first = "none"
               \/ t.fetches = 1 /\ t.first = "ok"
               \/ t.fetches = 1 /\ t.first = "err" /\ t.rc = "err"
               \/ t.fetches = 2 /\ t.first = "err" /\ t.rc = "ok"

\* a tick is over in which the fetch failed, Reconnect succeeded and the
\* fetch was retried
C3_Witness ==
    /\ pc["ups1"] = "idle"
    /\ tick["ups1"].first = "err" /\ tick["ups1"].rc = "ok"
    /\ tick["ups1"].fetches = 2 /\ tick["ups1"].reconnects = 1

\* C4: whatever the daemon replies, no poller panics, and a poller stops
\* only once the context is cancelled.
C4_PollerSurvives ==
    \A d \in Devices :
        /\ pc[d] # "panicked"
        /\ pc[d] = "stopped" => cancelled

\* C5: LOGOUT is sent only when every poller has stopped, and after the
\* cancellation no poller starts a poll cycle, sends a command or starts a
\* Reconnect.
C5_ShutdownOrdering ==
    [][/\ (pc[Main] = "disconnect" /\ io[Main].phase = "write" /\ io'[Main] # io[Main])
            => \A d \in Devices : pc[d] = "stopped"
       /\ cancelled =>
            \A d \in Devices :
                /\ ~(pc[d] = "idle" /\ pc'[d] = "fetch1")
                /\ ~(io[d].phase = "write" /\ io'[d] # io[d])
                /\ ~(pc[d] # "rc_close" /\ pc'[d] = "rc_close")]_vars

\* C12: no step of a running Session (a poll tick, a failed fetch, a
\* Reconnect, an on-demand command, the shutdown) changes the registry: its
\* devices and the identifier each is keyed by stay as discovery left them.
C12_RegistryFixed == [][boot.list' = boot.list]_vars

\* a fetch has failed, Reconnect has succeeded, an on-demand command has
\* been sent, and the registry holds its two devices
C12_Witness ==
    /\ tick["ups1"].rc = "ok"
    /\ app.cmds > 0
    /\ boot.list = Discovered

\* C8: on no connection is a command written before USERNAME and then
\* PASSWORD have been written on it and answered OK.
C8_LoginFirst == \A c \in ConnIds : auth[c] # "early"

----------------------------------------------------------------------------
(* SpecCodec: one call of sendCommand, any reply stream *)

CodecCmds ==
    { <<"LIST", "VAR", "ups1">>, <<"GET", "DESC", "ups1", "v">>,
      <<"USERNAME", "upsmon">>, <<"VER">> }

CodecLines ==
    { <<"BEGIN", "LIST", "VAR", "ups1">>, <<"VAR", "ups1", "v", "\"1\"">>,
      <<"VAR", "ups1", "w", "\"x\"">>,
      <<"END", "LIST", "VAR", "ups1">>, <<"END", "LIST", "VAR", "ups2">>,
      <<"ERR", "UNKNOWN-UPS">>, <<"OK">> }

RECURSIVE SeqsUpTo(_, _)
SeqsUpTo(S, n) ==
    IF n = 0 THEN {<<>>}
    ELSE LET shorter == SeqsUpTo(S, n - 1)
         IN  shorter \cup {Append(s, x) : s \in {t \in shorter : Len(t) = n - 1}, x \in S}

InitCodec ==
    /\ conn = 0
    /\ nconns = 0
    /\ sock = [c \in ConnIds |-> SockAfterNew(c = 0)]
    /\ auth = [c \in ConnIds |-> "new"]
    /\ \E cmd \in CodecCmds : io = [p \in Procs |-> IF p = Main THEN IoCall(cmd) ELSE IoIdle]
    /\ pc = [p \in Procs |-> "codec"]
    /\ gv = [d \in Devices |-> GvIdle]
    /\ variables = [d \in Devices |-> <<>>]
    /\ tick = [d \in Devices |-> IdleTick]
    /\ faults = 0
    /\ cancelled = FALSE
    /\ script = <<>>
    /\ boot = BootIdle
    /\ app = AppOf(<<0>>)

CodecStreams == SeqsUpTo(CodecLines, MaxReply)

CodecWrite ==
    /\ io[Main].phase = "write"
    /\ \E s \in CodecStreams :
          /\ WriteWith(Main, s)
          /\ script' = s
    /\ UNCHANGED faults

NextCodec ==
    \/ CodecWrite
    \/ Bind(Main)
    \/ ReadLine(Main)
    \/ ReadFail(Main)

SpecCodec == InitCodec /\ [][NextCodec]_vars

\* SpecCodecLive: the goroutine that called sendCommand keeps running, and
\* a read that waits ends at its deadline
LiveStreams == SeqsUpTo(CodecLines, MaxReply - 1)

LiveWrite ==
    /\ io[Main].phase = "write"
    /\ \E s \in LiveStreams :
          /\ WriteWith(Main, s)
          /\ script' = s
    /\ UNCHANGED faults

NextCodecLive ==
    \/ LiveWrite
    \/ Bind(Main)
    \/ ReadLine(Main)
    \/ ReadFail(Main)

SpecCodecLive == InitCodec /\ [][NextCodecLive]_vars /\ WF_vars(NextCodecLive)

\* C11: every sendCommand call returns, with response lines or with an
\* error, whatever the daemon sends or fails to send.
C11_SendReturns == <>(io[Main].phase = "ret")

\* a LIST command whose reply had lines but never the END line has returned
\* the read error
C11_Witness ==
    LET f == io[Main] IN
    /\ f.phase = "ret" /\ ~f.ok /\ f.err = ErrRead
    /\ multiLineResponse(f.cmd)
    /\ script # <<>>
    /\ \A i \in 1..Len(script) : script[i] # <<"END">> \o f.cmd

\* A well-formed reply to the LIST command cmd: the opening line, entries
\* that start with the listed kind, the terminator.
ValidListReply(cmd, s) ==
    /\ multiLineResponse(cmd)
    /\ Len(s) >= 2
    /\ s[1] = <<"BEGIN">> \o cmd
    /\ s[Len(s)] = <<"END">> \o cmd
    /\ \A i \in 2..(Len(s) - 1) : s[i][1] = cmd[2]

\* C9: whenever the first response line starts with "ERR ", sendCommand has
\* returned at once: a failure whose reason is the line's second field, no
\* data lines, and no further line read.
C9_ErrFirstLineIsFailure ==
    LET f == io[Main] IN
    (f.resp # <<>> /\ IsErr(f.resp[1].text)) =>
        /\ f.phase = "ret"
        /\ ~f.ok
        /\ f.err = ErrToken(f.resp[1].text)
        /\ f.out = <<>>
        /\ Len(f.resp) = 1

\* C10 as stated: for a valid reply to LIST X, sendCommand returns exactly
\* the interior lines, without the opening line and without END LIST X.
C10_ReturnsInteriorOnly ==
    LET f == io[Main] IN
    (f.phase = "ret" /\ ValidListReply(f.cmd, script)) =>
        /\ f.ok
        /\ Texts(f.out) = ListEntries(script)

\* C10 amended: for a valid reply to LIST X, reading stops at the first line
\* equal to END LIST X and sendCommand returns every line of the reply in
\* order, the opening line and END LIST X included; the slice the Device
\* iterates over, resp[1 : len(resp)-1], is exactly the interior lines.
C10_ReturnsFramedReply ==
    LET f == io[Main] IN
    (f.phase = "ret" /\ ValidListReply(f.cmd, script)) =>
        /\ f.ok
        /\ Texts(f.out) = script
        /\ Texts(f.out)[Len(f.out)] = <<"END">> \o f.cmd
        /\ \A i \in 1..(Len(f.out) - 1) : Texts(f.out)[i] # <<"END">> \o f.cmd
        /\ ListEntries(Texts(f.out)) = ListEntries(script)

\* a command for which sendCommand sets endLine to "OK"
OkTerminated(cmd) == endLine(cmd) = <<"OK">>

\* C22 as stated: for a command with the terminator OK, the read ends at a
\* line OK, and a first line that is not OK does not end it.
C22_ReadsUntilOk ==
    LET f == io[Main] IN
    (f.phase = "ret" /\ OkTerminated(f.cmd) /\ f.resp # <<>>) =>
        f.resp[Len(f.resp)].text = <<"OK">>

\* C22 amended: for a command with the terminator OK, the read ends after
\* the first line received, whatever it is; sendCommand returns that one
\* line, or the error token when it is an ERR line.
C22_ReturnsFirstLine ==
    LET f == io[Main] IN
    (f.phase = "ret" /\ OkTerminated(f.cmd) /\ script # <<>>) =>
        /\ Len(f.resp) = 1
        /\ f.resp[1].text = script[1]
        /\ IF IsErr(script[1])
           THEN ~f.ok /\ f.err = ErrToken(script[1])
           ELSE f.ok /\ Texts(f.out) = <<script[1]>>

\* USERNAME has returned a first line that is not OK while the daemon had
\* sent OK after it
C22_Witness ==
    LET f == io[Main] IN
    /\ f.phase = "ret" /\ f.ok
    /\ OkTerminated(f.cmd)
    /\ Len(script) >= 2
    /\ script[1] # <<"OK">>
    /\ script[2] = <<"OK">>

\* a valid LIST reply with two different entries has been read to its end
C10_Witness ==
    LET f == io[Main] IN
    /\ f.phase = "ret" /\ f.ok
    /\ ValidListReply(f.cmd, script)
    /\ Len(script) = 4 /\ script[2] # script[3]

----------------------------------------------------------------------------
(* SpecDiscovery: getListOfUPS inside New, against a scripted daemon *)

BootVarNames == {"ups.mfr", "ups.status"}
BootValues == {"\"APC\"", "\"1500\""}

\* the commands discovery can send
BootCmds ==
    {ListUpsCmd}
    \cup UNION {{UpsDescCmd(d), ListClientCmd(d), ListCmdCmd(d),
                 CmdDescCmd(d, "beeper.off"), ListVarCmd(d)} : d \in Devices}
    \cup {DescCmd(d, <<n>>) : d \in Devices, n \in BootVarNames}
    \cup {TypeCmd(d, <<n>>) : d \in Devices, n \in BootVarNames}

\* the daemon answers every command well, or one command badly
NoBad == [cmd |-> <<>>, reply |-> <<>>]
BadChoices ==
    {NoBad} \cup UNION {{[cmd |-> c, reply |-> r] : r \in BadReplies(c)} : c \in BootCmds}

\* the daemon's answer in discovery: each device reports one variable
BootReply(cmd) ==
    IF cmd = script.bad.cmd THEN script.bad.reply
    ELSE IF cmd[1] = "LIST" /\ cmd[2] = "VAR" THEN
        << <<"BEGIN">> \o cmd,
           <<"VAR", cmd[3], script.var[cmd[3]].name, script.var[cmd[3]].value>>,
           <<"END">> \o cmd >>
    ELSE GoodReply(cmd)

\* New has connected, authenticated and read the versions; getListOfUPS
\* begins, and no poller exists yet
InitDiscovery ==
    /\ conn = 0
    /\ nconns = 0
    /\ sock = [c \in ConnIds |-> SockAfterNew(c = 0)]
    /\ auth = [c \in ConnIds |-> IF c = 0 THEN "authed" ELSE "new"]
    /\ io = [p \in Procs |-> IF p = Main THEN IoCall(ListUpsCmd) ELSE IoIdle]
    /\ pc = [p \in Procs |-> IF p = Main THEN "list_ups" ELSE "unborn"]
    /\ gv = [d \in Devices |-> GvIdle]
    /\ variables = [d \in Devices |-> <<>>]
    /\ tick = [d \in Devices |-> IdleTick]
    /\ faults = 0
    /\ cancelled = FALSE
    /\ script \in [bad : BadChoices,
                    var : [Devices -> [name : BootVarNames, value : BootValues]]]
    /\ boot = BootIdle
    /\ app = AppOf(<<>>)

\* sendCommand's write in discovery, with the scripted answer
BootWrite ==
    /\ io[Main].phase = "write"
    /\ WriteWith(Main, BootReply(io[Main].cmd))
    /\ UNCHANGED <<faults, script>>

NextDiscovery ==
    \/ BootWrite
    \/ Bind(Main)
    \/ ReadLine(Main)
    \/ ReadFail(Main)

SpecDiscovery == InitDiscovery /\ [][NextDiscovery]_vars

\* the commands NewUPS sends for device d when every answer is good
SentFor(d) ==
    {UpsDescCmd(d), ListClientCmd(d), ListCmdCmd(d), CmdDescCmd(d, "beeper.off"),
     ListVarCmd(d), DescCmd(d, <<script.var[d].name>>), TypeCmd(d, <<script.var[d].name>>)}

\* the daemon answers every command about device d well
AnsweredWell(d) == script.bad.cmd \notin SentFor(d)

\* the variable device d reports is of the kind NewUPS expects
ExpectedKind(d) ==
    LET v == script.var[d] IN
    v.name \in {"ups.mfr", "ups.model"} =>
        InferValue(Unquote(v.value), "STRING").kind = "string"

Registered(d) == \E e \in boot.list : e.name = d

\* the LIST UPS reply names the devices
Listed == script.bad.cmd # ListUpsCmd

\* C7: discovery does not crash, New fails only when LIST UPS itself fails,
\* and when getListOfUPS has returned the registry holds exactly the listed
\* devices whose bootstrap went well.
C7_DiscoveryIsolated ==
    /\ pc[Main] # "panicked"
    /\ pc[Main] = "new_failed" => script.bad.cmd = ListUpsCmd
    /\ pc[Main] = "run" =>
          \A d \in Devices :
              Registered(d) <=> (Listed /\ AnsweredWell(d) /\ ExpectedKind(d))

----------------------------------------------------------------------------
(* SpecInfer: the type inference of GetVariables on raw value texts *)

ValueAlphabet == {"-", ".", "1", "9", "e"}

\* the raw value texts: every short text over the alphabet, the two
\* keywords, and the numbers at the ends of the int64 range
RawValues ==
    SeqsUpTo(ValueAlphabet, MaxValueLen)
    \cup { Chars("enabled"), Chars("disabled"),
           MaxInt64, MinInt64Abs, <<"-">> \o MinInt64Abs,
           <<"0", "0">> \o MaxInt64,
           <<"-">> \o SubSeq(MinInt64Abs, 1, 18) \o <<"9">> }

DeclaredTypes == {"STRING", "NUMBER", "RANGE"}

InitInfer ==
    /\ conn = 0
    /\ nconns = 0
    /\ sock = [c \in ConnIds |-> SockAfterNew(c = 0)]
    /\ auth = [c \in ConnIds |-> "new"]
    /\ io = [p \in Procs |-> IoIdle]
    /\ pc = [p \in Procs |-> IF p = Main THEN "infer" ELSE "unborn"]
    /\ gv = [d \in Devices |-> GvIdle]
    /\ variables = [d \in Devices |-> <<>>]
    /\ tick = [d \in Devices |-> IdleTick]
    /\ faults = 0
    /\ cancelled = FALSE
    /\ script \in [raw : RawValues, declared : DeclaredTypes, result : {<<>>}]
    /\ boot = BootIdle
    /\ app = AppOf(<<>>)

\* GetVariables builds newVar from valueStr and varType
Infer ==
    /\ pc[Main] = "infer"
    /\ pc' = [pc EXCEPT ![Main] = "inferred"]
    /\ script' = [script EXCEPT !.result = InferChars(script.raw, script.declared)]
    /\ UNCHANGED <<netVars, io, gv, variables, tick, faults, cancelled, boot, app>>

NextInfer == Infer

SpecInfer == InitInfer /\ [][NextInfer]_vars

\* ^-?\d+$
IsIntegerText(cs) ==
    LET body == IF cs # <<>> /\ cs[1] = "-" THEN Tail(cs) ELSE cs IN
    body # <<>> /\ \A i \in 1..Len(body) : body[i] \in Digits

\* ^-?\d+\.\d+$
IsDecimalText(cs) ==
    LET body == IF cs # <<>> /\ cs[1] = "-" THEN Tail(cs) ELSE cs IN
    \E k \in 2..(Len(body) - 1) :
        /\ body[k] = "."
        /\ \A i \in 1..Len(body) : i # k => body[i] \in Digits

\* C16: a text of digits with an optional sign is an int64 of type INTEGER,
\* whatever its size; digits, a point and digits are a float64 of type
\* FLOAT_64; enabled and disabled are the booleans true and false; every
\* other text is a string of type STRING; the declared type is kept as the
\* original type.
C16_InferredTypes ==
    pc[Main] = "inferred" =>
        LET cs == script.raw
            r == script.result
        IN  /\ r.original = script.declared
            /\ IF IsIntegerText(cs) THEN r.kind = "int64" /\ r.type = "INTEGER"
               ELSE IF IsDecimalText(cs) THEN r.kind = "float64" /\ r.type = "FLOAT_64"
               ELSE IF cs = Chars("enabled") THEN r.kind = "bool" /\ r.truth
               ELSE IF cs = Chars("disabled") THEN r.kind = "bool" /\ ~r.truth
               ELSE r.kind = "string" /\ r.type = "STRING"

----------------------------------------------------------------------------
(* SpecIdent: NewUPS derives the identifier of two devices *)

\* the byte of a character
ByteOf(c) ==
    CASE c = "-" -> 45 [] c = "." -> 46 [] c = "a" -> 97 [] c = "u" -> 117
      [] OTHER -> 48 + DigitVal(c)

BytesOf(cs) == [i \in 1..Len(cs) |-> ByteOf(cs[i])]

\* strconv.FormatInt(val, 10) of the int64 that ParseInt made of cs
FormatInt(cs) ==
    LET neg == cs[1] = "-"
        mag == StripZeros(IF neg THEN Tail(cs) ELSE cs)
    IN  IF neg /\ mag # <<"0">> THEN <<"-">> \o mag ELSE mag

\* u.VendorID or u.ProductID after the loop over u.Variables, from the raw
\* value of the variable (empty when the device does not report it): the
\* value when it is a string, its decimal form when it is an int64, and
\* nothing otherwise
IdField(raw) ==
    LET r == InferChars(raw, "STRING") IN
    IF r.kind = "string" THEN raw
    ELSE IF r.kind = "int64" THEN FormatInt(raw)
    ELSE <<>>

\* u.GenerateID() on the fields of the device u
IDOf(u) ==
    GenerateID(BytesOf(u.Server), BytesOf(u.Name),
               BytesOf(u.ProductID), BytesOf(u.VendorID))

IdentServers == { <<"a">>, <<"a", "1">> }
IdentNames == { <<>>, <<"1">>, <<"u">>, <<"u", "1">> }
IdentProducts == { <<>>, <<"1">>, <<"0", "1">>, <<"1", ".", "5">> }
IdentVendors == { <<>>, <<"u">> }
IdentModels == { <<>>, <<"u">> }

\* NewUPS is called for two devices u[1] and u[2]; rawProduct and rawVendor
\* are the values of ups.productid and ups.vendorid, Model that of ups.model
InitIdent ==
    /\ conn = 0
    /\ nconns = 0
    /\ sock = [c \in ConnIds |-> SockAfterNew(c = 0)]
    /\ auth = [c \in ConnIds |-> "new"]
    /\ io = [p \in Procs |-> IoIdle]
    /\ pc = [p \in Procs |-> IF p = Main THEN "ident" ELSE "unborn"]
    /\ gv = [d \in Devices |-> GvIdle]
    /\ variables = [d \in Devices |-> <<>>]
    /\ tick = [d \in Devices |-> IdleTick]
    /\ faults = 0
    /\ cancelled = FALSE
    /\ script \in [1..2 -> [Server : IdentServers, Name : IdentNames,
                            rawProduct : IdentProducts, rawVendor : IdentVendors,
                            Model : IdentModels,
                            ProductID : {<<>>}, VendorID : {<<>>}, ID : {<<>>}]]
    /\ boot = BootIdle
    /\ app = AppOf(<<>>)

\* NewUPS, from the loop over u.Variables to u.ID = u.GenerateID()
Identify ==
    /\ pc[Main] = "ident"
    /\ \E i \in 1..2 :
          /\ script[i].ID = <<>>
          /\ LET u == [script[i] EXCEPT !.ProductID = IdField(script[i].rawProduct),
                                        !.VendorID = IdField(script[i].rawVendor)]
             IN  script' = [script EXCEPT ![i] = [u EXCEPT !.ID = IDOf(u)]]
    /\ UNCHANGED <<netVars, io, pc, gv, variables, tick, faults, cancelled, boot, app>>

NextIdent == Identify

SpecIdent == InitIdent /\ [][NextIdent]_vars

\* the four inputs of the identifier
IdInputs(u) == <<u.Server, u.Name, u.ProductID, u.VendorID>>

\* what GenerateID hashes for the device u
Hashed(u) ==
    HashInput(BytesOf(u.Server), BytesOf(u.Name),
              BytesOf(u.ProductID), BytesOf(u.VendorID))

\* C17: the identifier has 6 characters; two devices with the same server,
\* name, product id and vendor id have the same identifier whatever else
\* they report; two devices that differ in exactly one of the four have
\* different hashed values, and the identifier is determined by the hashed
\* value.
C17_IdentifierOfInputs ==
    \A i, j \in 1..2 :
        (script[i].ID # <<>> /\ script[j].ID # <<>>) =>
            LET u == script[i]
                w == script[j]
            IN  /\ Len(u.ID) = 6
                /\ IdInputs(u) = IdInputs(w) => u.ID = w.ID
                /\ Cardinality({k \in 1..4 : IdInputs(u)[k] # IdInputs(w)[k]}) = 1
                      => Hashed(u) # Hashed(w)
                /\ Hashed(u) = Hashed(w) => u.ID = w.ID

\* two devices that differ in the name alone, and in what else they report,
\* have different identifiers
C17_Witness ==
    LET u == script[1]
        w == script[2]
    IN  /\ u.ID # <<>> /\ w.ID # <<>>
        /\ u.Name # w.Name
        /\ u.Server = w.Server /\ u.ProductID = w.ProductID /\ u.VendorID = w.VendorID
        /\ u.rawProduct # w.rawProduct /\ u.Model # w.Model
        /\ u.ID # w.ID

\* C26: two identified devices whose (server, name, product id, vendor id)
\* differ in any way, in several fields at once included, have different
\* hashed values.
C26_HashedDeterminesInputs ==
    \A i, j \in 1..2 :
        (script[i].ID # <<>> /\ script[j].ID # <<>>) =>
            (IdInputs(script[i]) # IdInputs(script[j])
                => Hashed(script[i]) # Hashed(script[j]))

----------------------------------------------------------------------------
(* SpecGetters: GetStatus, GetBattery, GetLoad and GetRuntime on a snapshot *)

\* the number a text of digits denotes
RECURSIVE Num(_)
Num(ds) ==
    IF ds = <<>> THEN 0
    ELSE Num(SubSeq(ds, 1, Len(ds) - 1)) * 10 + DigitVal(ds[Len(ds)])

\* the int64 strconv.ParseInt returns (the numbers of the model are small)
IntValue(cs) == IF cs[1] = "-" THEN 0 - Num(Tail(cs)) ELSE Num(cs)

\* Go values: kind is the dynamic type, n the int64, text the string or
\* the decimal text of the float64, truth the bool
Nil == [kind |-> "nil", n |-> 0, text |-> <<>>, truth |-> FALSE]
Int64(n) == [kind |-> "int64", n |-> n, text |-> <<>>, truth |-> FALSE]
Float64(cs) == [kind |-> "float64", n |-> 0, text |-> cs, truth |-> FALSE]
String(cs) == [kind |-> "string", n |-> 0, text |-> cs, truth |-> FALSE]
ZeroFloat == Float64(<<"0", ".", "0">>)

\* Variable.Value as GetVariables sets it for the raw text cs
ValueOf(cs) ==
    LET r == InferChars(cs, "NUMBER") IN
    IF r.kind = "int64" THEN Int64(IntValue(cs))
    ELSE IF r.kind = "float64" THEN Float64(cs)
    ELSE IF r.kind = "bool" THEN [Nil EXCEPT !.kind = "bool", !.truth = r.truth]
    ELSE String(cs)

Absent == [present |-> FALSE, raw |-> <<>>]
Raw(cs) == [present |-> TRUE, raw |-> cs]

\* u.getVariable(name) on the snapshot snap
getVariable(snap, name) ==
    IF snap[name].present THEN ValueOf(snap[name].raw) ELSE Nil

\* Go's integer division, which truncates toward zero
GoDiv(a, b) == IF a >= 0 THEN a \div b ELSE 0 - ((0 - a) \div b)

NUTStatusHumanReadable(code) ==
    CASE code = "OL" -> "Online"
      [] code = "OB" -> "On Battery"
      [] code = "LB" -> "Low Battery"
      [] code = "RB" -> "Replace Battery"
      [] code = "CHRG" -> "Charging"
      [] code = "DISCHRG" -> "Discharging"
      [] code = "BYPASS" -> "Bypass Active"
      [] code = "CAL" -> "Calibrating"
      [] code = "OFF" -> "Offline"
      [] code = "OVER" -> "Overload"
      [] code = "TRIM" -> "SmartTrim"
      [] code = "BOOST" -> "SmartBoost"
      [] code = "FSD" -> "Forced Shutdown"
      [] code = "ALARM" -> "Alarm"
      [] code = "TEST" -> "Self Test"
      [] code = "COMM" -> "Communication Lost"
      [] OTHER -> ""

\* strings.ToLower
ToLower(str) ==
    CASE str = "Online" -> "online"
      [] str = "On Battery" -> "on battery"
      [] str = "Low Battery" -> "low battery"
      [] str = "Replace Battery" -> "replace battery"
      [] str = "Charging" -> "charging"
      [] str = "Discharging" -> "discharging"
      [] str = "Bypass Active" -> "bypass active"
      [] str = "Calibrating" -> "calibrating"
      [] str = "Offline" -> "offline"
      [] str = "Overload" -> "overload"
      [] str = "SmartTrim" -> "smarttrim"
      [] str = "SmartBoost" -> "smartboost"
      [] str = "Forced Shutdown" -> "forced shutdown"
      [] str = "Alarm" -> "alarm"
      [] str = "Self Test" -> "self test"
      [] str = "Communication Lost" -> "communication lost"
      [] str = "Unknown" -> "unknown"

IsSpace(piece) == piece = " "
IsCode(piece) == piece # " "

\* strings.Fields, on a text given as its codes and the spaces between them
Fields(text) == SelectSeq(text, IsCode)

\* the loop of GetStatus over the codes
RECURSIVE Describe(_, _)
Describe(codes, descriptions) ==
    IF codes = <<>> THEN descriptions
    ELSE LET desc == NUTStatusHumanReadable(Head(codes)) IN
         Describe(Tail(codes),
                  Append(descriptions,
                         IF desc # ""
                         THEN (IF Len(descriptions) > 0 THEN ToLower(desc) ELSE desc)
                         ELSE "Unknown"))

\* strings.Join(elems, sep), as the sequence of its pieces
RECURSIVE Join(_, _)
Join(elems, sep) ==
    IF Len(elems) <= 1 THEN elems
    ELSE <<Head(elems), sep>> \o Join(Tail(elems), sep)

GetStatus(snap) ==
    LET v == getVariable(snap, "ups.status")
        statusCode == IF v.kind = "string" THEN v.text ELSE <<>>
    IN  [human |-> Join(Describe(Fields(statusCode), <<>>), ", "),
         raw |-> statusCode, err |-> FALSE]

GetBattery(snap) ==
    LET c == getVariable(snap, "battery.charge")
        l == getVariable(snap, "battery.charge.low")
        v == getVariable(snap, "battery.voltage")
    IN  [charge |-> IF c.kind = "int64" THEN c ELSE Int64(0),
         low |-> IF l.kind = "int64" THEN l ELSE Int64(0),
         voltage |-> IF v.kind = "float64" THEN v ELSE ZeroFloat,
         err |-> FALSE]

GetLoad(snap) ==
    LET l == getVariable(snap, "ups.load")
        load == IF l.kind = "int64" THEN l.n ELSE 0
        rp == getVariable(snap, "ups.realpower")
        rn == getVariable(snap, "ups.realpower.nominal")
        pn == getVariable(snap, "ups.power.nominal")
        nominal == IF rn.kind = "int64" THEN rn.n
                   ELSE IF pn.kind = "int64" THEN pn.n
                   ELSE 0
    IN  [load |-> Int64(load),
         power |-> IF rp.kind = "int64" THEN rp ELSE Int64(GoDiv(load * nominal, 100)),
         err |-> FALSE]

GetRuntime(snap) ==
    LET v == getVariable(snap, "battery.runtime") IN
    IF v.kind = "int64" THEN [value |-> v, err |-> FALSE]
    ELSE [value |-> Int64(0), err |-> TRUE]

VarNames ==
    { "ups.status", "battery.charge", "battery.charge.low", "battery.voltage",
      "battery.runtime", "ups.load", "ups.realpower", "ups.realpower.nominal",
      "ups.power.nominal" }

StatusPieces == {"OL", "CHRG", "LB", "FOO", " "}

\* status texts: codes with spaces before, between and after them
StatusTexts ==
    {t \in SeqsUpTo(StatusPieces, MaxPieces) :
        \A i \in 1..(Len(t) - 1) : IsSpace(t[i]) \/ IsSpace(t[i + 1])}

\* the raw values the daemon reports for a variable
RawChoices(name) ==
    IF name = "ups.status" THEN
        {Absent} \cup {Raw(t) : t \in StatusTexts}
    ELSE IF name = "ups.load" THEN
        {Absent, Raw(<<"5", "0">>), Raw(<<"-", "7">>), Raw(<<"5", "0", ".", "5">>)}
    ELSE IF name = "ups.realpower.nominal" THEN
        {Absent, Raw(<<"8", "0", "0">>), Raw(<<"8", "0", "0", ".", "0">>)}
    ELSE IF name = "ups.power.nominal" THEN
        {Absent, Raw(<<"1", "5", "0">>)}
    ELSE {Absent, Raw(<<"9", "0">>), Raw(<<"1", "3", ".", "5">>)}

\* the variables a getter reads
ReadBy(getter) ==
    CASE getter = "GetStatus" -> {"ups.status"}
      [] getter = "GetBattery" -> {"battery.charge", "battery.charge.low", "battery.voltage"}
      [] getter = "GetLoad" -> {"ups.load", "ups.realpower", "ups.realpower.nominal",
                                "ups.power.nominal"}
      [] getter = "GetRuntime" -> {"battery.runtime"}

Getters == {"GetStatus", "GetBattery", "GetLoad", "GetRuntime"}

\* the values of the variables a getter reads
Snapshots(getter) ==
    LET names == ReadBy(getter)
        all == UNION {RawChoices(n) : n \in names}
    IN  {f \in [names -> all] : \A n \in names : f[n] \in RawChoices(n)}

\* a getter is about to be called on a snapshot; the variables it does not
\* read are left out of the snapshot
InitGetters ==
    /\ conn = 0
    /\ nconns = 0
    /\ sock = [c \in ConnIds |-> SockAfterNew(c = 0)]
    /\ auth = [c \in ConnIds |-> "new"]
    /\ io = [p \in Procs |-> IoIdle]
    /\ pc = [p \in Procs |-> IF p = Main THEN "get" ELSE "unborn"]
    /\ gv = [d \in Devices |-> GvIdle]
    /\ variables = [d \in Devices |-> <<>>]
    /\ tick = [d \in Devices |-> IdleTick]
    /\ faults = 0
    /\ cancelled = FALSE
    /\ \E g \in Getters :
       \E read \in Snapshots(g) :
          script = [getter |-> g,
                    snap |-> [n \in VarNames |->
                                IF n \in ReadBy(g) THEN read[n] ELSE Absent],
                    result |-> <<>>]
    /\ boot = BootIdle
    /\ app = AppOf(<<>>)

\* the getter is called
Get ==
    /\ pc[Main] = "get"
    /\ pc' = [pc EXCEPT ![Main] = "got"]
    /\ script' = [script EXCEPT !.result =
          CASE script.getter = "GetStatus" -> GetStatus(script.snap)
            [] script.getter = "GetBattery" -> GetBattery(script.snap)
            [] script.getter = "GetLoad" -> GetLoad(script.snap)
            [] script.getter = "GetRuntime" -> GetRuntime(script.snap)]
    /\ UNCHANGED <<netVars, io, gv, variables, tick, faults, cancelled, boot, app>>

NextGetters == Get

SpecGetters == InitGetters /\ [][NextGetters]_vars

Got(getter) == pc[Main] = "got" /\ script.getter = getter

\* the reading for the variable name: its value when the snapshot has it,
\* zero when it is missing
ReadingOrZero(name, reading, zero) ==
    IF script.snap[name].present THEN reading = ValueOf(script.snap[name].raw)
    ELSE reading = zero

\* C18: GetRuntime returns the value of battery.runtime when the snapshot
\* has it and an error when it has not; GetBattery and GetLoad return no
\* error, and charge, low threshold, voltage and load are the values of
\* their variables when the snapshot has them and zero when it has not.
C18_ReadingsOrZero ==
    /\ Got("GetRuntime") =>
          IF script.snap["battery.runtime"].present
          THEN /\ ~script.result.err
               /\ script.result.value = ValueOf(script.snap["battery.runtime"].raw)
          ELSE script.result.err
    /\ Got("GetBattery") =>
          /\ ~script.result.err
          /\ ReadingOrZero("battery.charge", script.result.charge, Int64(0))
          /\ ReadingOrZero("battery.charge.low", script.result.low, Int64(0))
          /\ ReadingOrZero("battery.voltage", script.result.voltage, ZeroFloat)
    /\ Got("GetLoad") =>
          /\ ~script.result.err
          /\ ReadingOrZero("ups.load", script.result.load, Int64(0))

\* C19: the load is ups.load; the power is ups.realpower when the snapshot
\* has it; otherwise, when the snapshot has ups.realpower.nominal or else
\* ups.power.nominal, the power is load * nominal / 100.
C19_LoadAndPower ==
    Got("GetLoad") =>
        LET snap == script.snap
            r == script.result
        IN  /\ snap["ups.load"].present => r.load = ValueOf(snap["ups.load"].raw)
            /\ IF snap["ups.realpower"].present
               THEN r.power = ValueOf(snap["ups.realpower"].raw)
               ELSE IF snap["ups.realpower.nominal"].present
               THEN LET nom == ValueOf(snap["ups.realpower.nominal"].raw) IN
                    nom.kind = "int64" /\ r.power = Int64(GoDiv(r.load.n * nom.n, 100))
               ELSE IF snap["ups.power.nominal"].present
               THEN LET nom == ValueOf(snap["ups.power.nominal"].raw) IN
                    nom.kind = "int64" /\ r.power = Int64(GoDiv(r.load.n * nom.n, 100))
               ELSE TRUE

\* the table's word for a code, "Unknown" for a code the table has not
TableWord(code) ==
    IF NUTStatusHumanReadable(code) # "" THEN NUTStatusHumanReadable(code) ELSE "Unknown"

\* C20: the human string is the table's word of each code, the first as in
\* the table and every later one in lower case, joined with ", "; the raw
\* string is the value of ups.status.
C20_StatusText ==
    (Got("GetStatus") /\ script.snap["ups.status"].present) =>
        LET text == script.snap["ups.status"].raw
            codes == Fields(text)
            words == [i \in 1..Len(codes) |->
                        IF i = 1 THEN TableWord(codes[i]) ELSE ToLower(TableWord(codes[i]))]
        IN  /\ script.result.human = Join(words, ", ")
            /\ script.result.raw = text
            /\ ~script.result.err

----------------------------------------------------------------------------
(* SpecLogout: one Disconnect call against every answer of the daemon *)

LogoutLines ==
    { <<"OK", "Goodbye">>, <<"Goodbye...">>, <<"OK">>, <<"Goodbye">>,
      <<"OK", "Goodbye", "upsmon">>, <<"ERR", "ACCESS-DENIED">> }

LogoutStreams == SeqsUpTo(LogoutLines, MaxReply - 1)

\* run calls client.Disconnect() on its one Client, whose connection is
\* open or was closed by the peer
InitLogout ==
    /\ conn = 0
    /\ nconns = 0
    /\ \E o \in BOOLEAN :
          sock = [c \in ConnIds |->
                    [SockAfterNew(c = 0) EXCEPT !.open = c = 0 /\ o]]
    /\ auth = [c \in ConnIds |-> IF c = 0 THEN "authed" ELSE "new"]
    /\ io = [p \in Procs |-> IF p = Main THEN IoCall(LogoutCmd) ELSE IoIdle]
    /\ pc = [p \in Procs |-> IF p = Main THEN "disconnect" ELSE "stopped"]
    /\ gv = [d \in Devices |-> GvIdle]
    /\ variables = [d \in Devices |-> <<>>]
    /\ tick = [d \in Devices |-> IdleTick]
    /\ faults = 0
    /\ cancelled = TRUE
    /\ script = <<>>
    /\ boot = [BootIdle EXCEPT !.list = Discovered, !.pollers = {1, 2}]
    /\ app = [AppOf(<<0>>) EXCEPT !.i = 1, !.attempted = {1}]

\* sendCommand's write of LOGOUT, with the daemon's answer
LogoutWrite ==
    /\ io[Main].phase = "write"
    /\ \E s \in LogoutStreams :
          /\ WriteWith(Main, s)
          /\ script' = s
    /\ UNCHANGED faults

NextLogout ==
    \/ LogoutWrite
    \/ Bind(Main)
    \/ ReadLine(Main)
    \/ ReadFail(Main)

SpecLogout == InitLogout /\ [][NextLogout]_vars

Goodbyes == { <<"OK", "Goodbye">>, <<"Goodbye...">> }

\* C14: Disconnect returns nil only after LOGOUT went out and the first line
\* of the answer was `OK Goodbye` or `Goodbye...`; with any other first
\* line, with no answer or with a failed write it returns an error.
C14_DisconnectVerdict ==
    /\ pc[Main] = "terminated" =>
          sock[0].loggedOut /\ script # <<>> /\ script[1] \in Goodbyes
    /\ pc[Main] = "run_failed" =>
          ~sock[0].open \/ script = <<>> \/ script[1] \notin Goodbyes

\* Disconnect has succeeded on the answer `Goodbye...`
C14_Witness ==
    /\ pc[Main] = "terminated"
    /\ script # <<>> /\ script[1] = <<"Goodbye...">>

----------------------------------------------------------------------------
(* SpecCollision: discovery when the LIST UPS reply names a device twice *)

\* the device names of the LIST UPS reply, in order
UpsListings ==
    { <<"ups1", "ups2">>, <<"ups1", "ups1">>, <<"ups1", "ups2", "ups1">> }

\* the daemon's LIST UPS reply for the names ups
ListUpsReply(ups) ==
    << <<"BEGIN">> \o ListUpsCmd >>
    \o [i \in 1..Len(ups) |-> <<"UPS", ups[i], "\"status\"">>]
    \o << <<"END">> \o ListUpsCmd >>

\* the daemon's answer: the bad one only while the device of UPS line
\* script.at is constructed
CollisionReply(cmd) ==
    IF cmd = ListUpsCmd THEN ListUpsReply(script.ups)
    ELSE IF cmd = script.bad.cmd /\ boot.nth # script.at THEN GoodReply(cmd)
    ELSE BootReply(cmd)

InitCollision ==
    /\ conn = 0
    /\ nconns = 0
    /\ sock = [c \in ConnIds |-> SockAfterNew(c = 0)]
    /\ auth = [c \in ConnIds |-> IF c = 0 THEN "authed" ELSE "new"]
    /\ io = [p \in Procs |-> IF p = Main THEN IoCall(ListUpsCmd) ELSE IoIdle]
    /\ pc = [p \in Procs |-> IF p = Main THEN "list_ups" ELSE "unborn"]
    /\ gv = [d \in Devices |-> GvIdle]
    /\ variables = [d \in Devices |-> <<>>]
    /\ tick = [d \in Devices |-> IdleTick]
    /\ faults = 0
    /\ cancelled = FALSE
    /\ script \in [bad : BadChoices \ {b \in BadChoices : b.cmd = ListUpsCmd},
                    var : [Devices -> [name : BootVarNames, value : {"\"APC\""}]],
                    ups : UpsListings,
                    at : 1..2]
    /\ boot = BootIdle
    /\ app = AppOf(<<>>)

\* sendCommand's write in discovery, with the scripted answer
CollisionWrite ==
    /\ io[Main].phase = "write"
    /\ WriteWith(Main, CollisionReply(io[Main].cmd))
    /\ UNCHANGED <<faults, script>>

NextCollision ==
    \/ CollisionWrite
    \/ Bind(Main)
    \/ ReadLine(Main)
    \/ ReadFail(Main)

SpecCollision == InitCollision /\ [][NextCollision]_vars

\* NewUPS succeeds for the device of UPS line j
Built(j) ==
    ~(script.at = j /\ script.bad.cmd \in SentFor(script.ups[j]))

\* the device of UPS line j is the first that NewUPS built with its
\* identifier
FirstBuilt(j) ==
    /\ Built(j)
    /\ \A k \in 1..(j - 1) :
          Built(k) => DeviceID(script.ups[k]) # DeviceID(script.ups[j])

\* C13: an entry of the registry is keyed by the identifier of its own
\* device, no identifier has two entries, and the device of an entry is the
\* first of the reply that was built with that identifier; when getListOfUPS
\* has returned, every such first device has its entry, and New has not
\* failed.
C13_FirstWins ==
    /\ \A e \in boot.list :
          /\ e.nth \in 1..Len(script.ups)
          /\ e.name = script.ups[e.nth]
          /\ e.id = DeviceID(e.name)
          /\ FirstBuilt(e.nth)
    /\ \A e1, e2 \in boot.list : e1.id = e2.id => e1 = e2
    /\ pc[Main] # "new_failed"
    /\ pc[Main] = "run" =>
          \A j \in 1..Len(script.ups) :
              FirstBuilt(j) => \E e \in boot.list : e.nth = j

\* C24: every device whose poller goroutine runs is in the registry.
C24_PollersAreRegistered ==
    \A n \in boot.pollers : \E e \in boot.list : e.nth = n

\* getListOfUPS has returned after it built two devices with one identifier:
\* the registry holds the earlier one
C13_Witness ==
    /\ pc[Main] = "run"
    /\ \E j, k \in 1..Len(script.ups) :
          /\ j < k
          /\ Built(j) /\ Built(k)
          /\ DeviceID(script.ups[j]) = DeviceID(script.ups[k])
          /\ \E e \in boot.list : e.nth = j
          /\ \A e \in boot.list : e.nth # k

----------------------------------------------------------------------------
(* SpecApp: create, then run until every Client is disconnected *)

\* the elements of a set of numbers in ascending order
RECURSIVE Ascending(_)
Ascending(S) ==
    IF S = {} THEN <<>>
    ELSE LET m == CHOOSE x \in S : \A y \in S : x <= y
         IN  <<m>> \o Ascending(S \ {m})

InitApp ==
    /\ conn = 0
    /\ nconns = 0
    /\ sock = [c \in ConnIds |-> SockAfterNew(FALSE)]
    /\ auth = [c \in ConnIds |-> "new"]
    /\ io = [p \in Procs |-> IoIdle]
    /\ pc = [p \in Procs |-> IF p = Main THEN "create" ELSE "unborn"]
    /\ gv = [d \in Devices |-> GvIdle]
    /\ variables = [d \in Devices |-> <<>>]
    /\ tick = [d \in Devices |-> IdleTick]
    /\ faults = 0
    /\ cancelled = FALSE
    /\ script = <<>>
    /\ boot = BootIdle
    /\ app = AppOf(<<>>)

\* create: with no host configured it returns an error and main exits;
\* otherwise nut.New is called for each host, on its own connection, and the
\* Clients of the calls that succeed (up) are kept
Create ==
    /\ pc[Main] = "create"
    /\ \E hosts \in 0..MaxHosts :
          IF hosts = 0
          THEN /\ pc' = [pc EXCEPT ![Main] = "exit1"]
               /\ UNCHANGED <<conn, sock, auth, app>>
          ELSE \E up \in SUBSET (0..(hosts - 1)) :
               /\ pc' = [pc EXCEPT ![Main] = "run"]
               /\ app' = AppOf(Ascending(up))
               /\ conn' = IF up = {} THEN 0 ELSE Ascending(up)[1]
               /\ sock' = [c \in ConnIds |-> SockAfterNew(c \in up)]
               /\ auth' = [c \in ConnIds |-> IF c \in up THEN "authed" ELSE "new"]
    /\ UNCHANGED <<nconns, io, gv, variables, tick, faults, cancelled, script, boot>>

NextApp ==
    \/ Create
    \/ Cancel
    \/ RunShutdown
    \/ RunNext
    \/ Write(Main)
    \/ Bind(Main)
    \/ ReadLine(Main)
    \/ ReadFail(Main)

SpecApp == InitApp /\ [][NextApp]_vars

\* C6: when run has returned, Disconnect has been attempted on every Client
\* the application holds.
C6_DisconnectAttemptedOnAll ==
    pc[Main] \in {"terminated", "run_failed"} =>
        app.attempted = 1..Len(app.clients)

\* C15: once Disconnect has returned for a Client, that Client's connection
\* is closed.
C15_ClosedAfterDisconnect ==
    \A k \in app.attempted :
        (k < app.i \/ pc[Main] \in {"disconnect_next", "terminated", "run_failed"}) =>
            ~sock[app.clients[k]].open

\* C21: the application never exits at startup: create keeps a Client for
\* every host whose New succeeded, whatever happened to the other hosts, and
\* with no host configured the application goes on as well.
C21_StartupNeverAborts ==
    /\ pc[Main] # "exit1"
    /\ pc[Main] # "create" =>
          \A c \in ConnIds :
              sock[c].open => \E k \in 1..Len(app.clients) : app.clients[k] = c

=============================================================================
